---- MODULE Spec2Model ----
(***************************************************************************)
(* Model of the HireBot backend (src/hirebot-backend/index.js): the        *)
(* in-memory session registry, the staged analysis routes, the forced      *)
(* fallback and retry routes, and the callGeminiAPI retry loop.            *)
(*                                                                         *)
(* A request handler is an async function; it is modelled as the atomic    *)
(* segments between its awaits.  The position of an in-flight request is   *)
(* one of                                                                  *)
(*   "stat"     awaiting fs.stat of the media file                         *)
(*   "read"     awaiting fileToBase64                                      *)
(*   "call"     awaiting axios.post inside callGeminiAPI                   *)
(*   "wait"     awaiting delay(ms) inside callGeminiAPI                    *)
(*   "redirect" a 307 answer of the retry route the client has not yet     *)
(*              followed                                                   *)
(* File sizes are whole megabytes.  Text values are abstracted to          *)
(* "ai" (non-empty generated text), "empty" (a generated fragment that is  *)
(* the empty string or undefined), "fallback" (a placeholder document)     *)
(* and "none" (the key is not in results).                                 *)
(***************************************************************************)
EXTENDS Integers, FiniteSets, Sequences, TLC

\* ---------------------------------------------------------------- bounds
MaxSessions == 1
MaxInFlight == 2
MaxRequests == 4

\* ------------------------------------------------------ program constants
VideoUploadCapMB == 10
AudioUploadCapMB == 25
VideoProcessingCapMB == 8
AudioProcessingCapMB == 20
FaceUploadCapMB == 10
FaceProcessingCapMB == 8
GatewayPayloadCapMB == 20
DefaultRetries == 3
CvRetries == 2
MediaRetries == 3
FaceRetries == 3
HealthRetries == 1
RateLimitBaseMs == 30000
GenericBaseMs == 5000
OverloadFinalWaitMs == 300000

waitTimes == <<30000, 120000, 300000>>

\* ------------------------------------------------------------ vocabulary
ResultKeys ==
  {"cvAnalysis", "transcription", "faceAnalysis", "technicalAnalysis",
   "communicationAnalysis", "finalReport"}

\* variant of requiredAnalyses that also requires faceAnalysis
requiredAnalyses_WithFace ==
  <<"cvAnalysis", "transcription", "faceAnalysis", "technicalAnalysis",
    "communicationAnalysis">>

\* the analyses the final report requires
requiredAnalyses ==
  <<"cvAnalysis", "transcription", "technicalAnalysis", "communicationAnalysis">>

StageOps ==
  {"analyze_cv", "transcribe_media", "face_analysis", "technical_analysis",
   "communication_analysis", "final_report"}

FileStages == {"analyze_cv", "transcribe_media", "face_analysis"}
PromptStages == {"technical_analysis", "communication_analysis", "final_report"}

\* variant of RetrySteps without the final report
RetrySteps_WithoutFinalReport ==
  {"cv_analysis", "transcription", "face_analysis", "technical_analysis",
   "communication_analysis"}

\* the :step names of the retry and fallback routes, and some that are not
RetrySteps ==
  {"cv_analysis", "transcription", "face_analysis", "technical_analysis",
   "communication_analysis", "final_report"}
FallbackSteps == {"cv_analysis", "transcription", "face_analysis"}
StepNames == RetrySteps \cup {"media_transcription"}

ResultKeyOf(op) ==
  CASE op = "analyze_cv" -> "cvAnalysis"
    [] op = "transcribe_media" -> "transcription"
    [] op = "face_analysis" -> "faceAnalysis"
    [] op = "technical_analysis" -> "technicalAnalysis"
    [] op = "communication_analysis" -> "communicationAnalysis"
    [] op = "final_report" -> "finalReport"

\* session.status of a stage that is running
InProgressStatus(op) ==
  CASE op = "analyze_cv" -> "analyzing_cv"
    [] op = "transcribe_media" -> "transcribing_media"
    [] op = "face_analysis" -> "analyzing_face"
    [] op = "technical_analysis" -> "analyzing_technical"
    [] op = "communication_analysis" -> "analyzing_communication"
    [] op = "final_report" -> "generating_final_report"

\* variant of CompletedStatus that names every transcription an audio one
CompletedStatus_AudioOnly(op, mediaType) ==
  CASE op = "analyze_cv" -> "cv_analyzed"
    [] op = "transcribe_media" -> "audio_transcribed"
    [] op = "face_analysis" -> "face_analyzed"
    [] op = "technical_analysis" -> "technical_analyzed"
    [] op = "communication_analysis" -> "communication_analyzed"
    [] op = "final_report" -> "completed"

\* session.status written after the provider returned text
CompletedStatus(op, mediaType) ==
  CASE op = "analyze_cv" -> "cv_analyzed"
    [] op = "transcribe_media" -> mediaType \o "_transcribed"
    [] op = "face_analysis" -> "face_analyzed"
    [] op = "technical_analysis" -> "technical_analyzed"
    [] op = "communication_analysis" -> "communication_analyzed"
    [] op = "final_report" -> "completed"

\* variant of FallbackStatus without the _fallback suffix
FallbackStatus_NoSuffix(op, mediaType) == CompletedStatus(op, mediaType)

\* session.status written on the fallback path of the three file stages
FallbackStatus(op, mediaType) ==
  CASE op = "analyze_cv" -> "cv_analyzed_fallback"
    [] op = "transcribe_media" -> mediaType \o "_transcribed_fallback"
    [] op = "face_analysis" -> "face_analyzed_fallback"

\* variant of NextStepOf in which the cv analysis points past the transcription
NextStepOf_SkipsTranscription(op, mediaType) ==
  CASE op = "analyze_cv" -> "technical_analysis"
    [] op = "transcribe_media" ->
         IF mediaType = "video" THEN "face_analysis" ELSE "technical_analysis"
    [] op = "face_analysis" -> "technical_analysis"
    [] op = "technical_analysis" -> "communication_analysis"
    [] op = "communication_analysis" -> "final_report"
    [] op = "final_report" -> "none"

\* nextStep of a success answer
NextStepOf(op, mediaType) ==
  CASE op = "analyze_cv" -> "media_transcription"
    [] op = "transcribe_media" ->
         IF mediaType = "video" THEN "face_analysis" ELSE "technical_analysis"
    [] op = "face_analysis" -> "technical_analysis"
    [] op = "technical_analysis" -> "communication_analysis"
    [] op = "communication_analysis" -> "final_report"
    [] op = "final_report" -> "none"

\* variant of RetriesOf in which every call site uses the default
RetriesOf_Default(op) == DefaultRetries

\* the retries argument each call site passes to callGeminiAPI
RetriesOf(op) ==
  CASE op = "analyze_cv" -> CvRetries
    [] op = "transcribe_media" -> MediaRetries
    [] op = "face_analysis" -> FaceRetries
    [] op = "health" -> HealthRetries
    [] OTHER -> DefaultRetries

\* variant of Truthy that accepts generated text only
Truthy_AiOnly(text) == text = "ai"

\* JavaScript truthiness of a stored text: !!session.results[key]
Truthy(text) == text \in {"ai", "fallback"}

EmptyResults == [k \in ResultKeys |-> "none"]

\* ------------------------------------------------------------------ state
VARIABLES
  analysisSessions,  \* the Map sessionId -> sessionData
  requests,          \* in-flight requests, by connection slot
  issued,            \* number of requests received so far
  lastResponse       \* the answer most recently sent

vars == <<analysisSessions, requests, issued, lastResponse>>

Slots == 1..MaxInFlight
SessionIds == 1..MaxSessions
\* ids a client may address: those of the store and one that never exists
AddressableIds == 1..(MaxSessions + 1)

Idle ==
  [seq |-> 0, op |-> "none", sid |-> 0, pc |-> "idle", attempt |-> 0,
   calls |-> 0, waits |-> 0, waitMs |-> 0, viaRetry |-> FALSE]

\* An answer: the request it answers, the HTTP status code and the error
\* text of the body, the missing, nextStep and availableSteps fields, whether
\* fallback content was returned, how many provider calls the request made,
\* and the kind of the error callGeminiAPI threw (what the route logs with
\* console.error).
NoResponse ==
  [seq |-> 0, op |-> "none", sid |-> 0, code |-> 0, error |-> "none",
   missing |-> {}, nextStep |-> "none", usedFallback |-> FALSE, calls |-> 0,
   thrown |-> "none", availableSteps |-> {}]

Respond(seq, op, sid, code, error) ==
  [NoResponse EXCEPT !.seq = seq, !.op = op, !.sid = sid, !.code = code,
                     !.error = error]

\* ------------------------------------------------------------ the uploads
\* A multipart upload of POST /api/initialize: the size in MB of each file
\* field (0: the field is missing) and whether jobDescription is non-empty.
Uploads ==
  { [audio |-> 0,  video |-> 5,  cv |-> 1,  jobDescription |-> TRUE],
    [audio |-> 5,  video |-> 9,  cv |-> 1,  jobDescription |-> TRUE],
    [audio |-> 0,  video |-> 11, cv |-> 1,  jobDescription |-> TRUE],
    [audio |-> 5,  video |-> 0,  cv |-> 1,  jobDescription |-> TRUE],
    [audio |-> 22, video |-> 0,  cv |-> 21, jobDescription |-> TRUE],
    [audio |-> 26, video |-> 0,  cv |-> 1,  jobDescription |-> TRUE],
    [audio |-> 0,  video |-> 0,  cv |-> 1,  jobDescription |-> TRUE],
    [audio |-> 5,  video |-> 0,  cv |-> 0,  jobDescription |-> TRUE],
    [audio |-> 5,  video |-> 0,  cv |-> 1,  jobDescription |-> FALSE] }

\* the uploads whose files are within every size cap of the stage routes,
\* and the uploads POST /api/initialize refuses
WorkflowUploads ==
  { u \in Uploads :
      \/ (u.audio = 0 /\ u.video = 0) \/ u.cv = 0 \/ ~u.jobDescription
      \/ u.video > 10
      \/ u.cv = 1 /\ ((u.video = 5 /\ u.audio = 0) \/ (u.video = 0 /\ u.audio = 5)) }

\* variant of NewSession that takes the audio file as the media when both
\* files were uploaded
NewSession_AudioFirst(id, u) ==
  [sessionId |-> id,
   audioPath |-> u.audio # 0,
   videoPath |-> u.video # 0,
   mediaType |-> IF u.audio # 0 THEN "audio" ELSE "video",
   mediaSizeMB |-> IF u.audio # 0 THEN u.audio ELSE u.video,
   cvSizeMB |-> u.cv,
   status |-> "initialized",
   results |-> EmptyResults,
   completedAt |-> FALSE]

\* sessionData as built by POST /api/initialize.  mediaSizeMB and cvSizeMB
\* are the sizes of the stored files at (videoPath || audioPath) and cvPath.
NewSession(id, u) ==
  [sessionId |-> id,
   audioPath |-> u.audio # 0,
   videoPath |-> u.video # 0,
   mediaType |-> IF u.video # 0 THEN "video" ELSE "audio",
   mediaSizeMB |-> IF u.video # 0 THEN u.video ELSE u.audio,
   cvSizeMB |-> u.cv,
   status |-> "initialized",
   results |-> EmptyResults,
   completedAt |-> FALSE]

\* ------------------------------------------------------ the AI provider
\* What one axios.post can produce.  An error carries the numeric code of
\* the provider's error body (0: no body, e.g. a timeout or a bare HTTP
\* failure) and two facts about the message text: whether it contains
\* "overloaded", and whether it contains "503" (or "OVERLOADED").
ErrorCodes == {0, 400, 429, 500, 503}

ProviderErrors ==
  [kind : {"error"}, text : {"none"}, code : ErrorCodes,
   overloadedMsg : BOOLEAN, has503 : BOOLEAN]

ProviderOutcomes ==
  { [kind |-> "text", text |-> t, code |-> 0, overloadedMsg |-> FALSE,
     has503 |-> FALSE] : t \in {"ai", "empty"} }
  \cup
  { [kind |-> "nocontent", text |-> "none", code |-> 0,
     overloadedMsg |-> FALSE, has503 |-> FALSE] }
  \cup ProviderErrors

\* variant of LocalError that carries the rate-limit code
LocalError_RateLimited ==
  [kind |-> "error", text |-> "none", code |-> 429, overloadedMsg |-> FALSE,
   has503 |-> FALSE]

\* the Error thrown inside the try block when the response has no content,
\* and the one thrown when the attachment is above 20 MB
LocalError ==
  [kind |-> "error", text |-> "none", code |-> 0, overloadedMsg |-> FALSE,
   has503 |-> FALSE]

\* variant of OverloadWaitMs that repeats the first entry of the schedule
OverloadWaitMs_FirstEntry(attempt) == waitTimes[1]

\* waitTimes[attempt - 1] || 300000
OverloadWaitMs(attempt) ==
  IF attempt <= Len(waitTimes) THEN waitTimes[attempt] ELSE OverloadFinalWaitMs

\* variant of RateLimitWaitMs that does not grow with the attempt number
RateLimitWaitMs_Flat(attempt) == RateLimitBaseMs

\* 30000 * attempt
RateLimitWaitMs(attempt) == RateLimitBaseMs * attempt

\* variant of GenericWaitMs that does not grow with the attempt number
GenericWaitMs_Flat(attempt) == GenericBaseMs

\* 5000 * attempt
GenericWaitMs(attempt) == GenericBaseMs * attempt

\* variant of CatchBlock that recognises an overload by the message text
\* only, not by the code 503
CatchBlock_MessageOnly(err, attempt, retries) ==
  IF err.overloadedMsg
  THEN IF attempt < retries
       THEN [act |-> "wait", ms |-> OverloadWaitMs(attempt), kind |-> "none",
             has503 |-> FALSE]
       ELSE [act |-> "throw", ms |-> 0, kind |-> "OVERLOADED",
             has503 |-> FALSE]
  ELSE IF err.code = 429
  THEN IF attempt < retries
       THEN [act |-> "wait", ms |-> RateLimitWaitMs(attempt),
             kind |-> "none", has503 |-> FALSE]
       ELSE [act |-> "throw", ms |-> 0, kind |-> "RATE_LIMITED",
             has503 |-> FALSE]
  ELSE IF err.code = 400
  THEN [act |-> "throw", ms |-> 0, kind |-> "INVALID_REQUEST",
        has503 |-> err.has503]
  ELSE IF attempt = retries
  THEN [act |-> "throw", ms |-> 0, kind |-> "FAILED_AFTER_RETRIES",
        has503 |-> err.has503]
  ELSE [act |-> "wait", ms |-> GenericWaitMs(attempt), kind |-> "none",
        has503 |-> FALSE]

\* The catch block of callGeminiAPI: what attempt number `attempt` of
\* `retries` does with the error err.
CatchBlock(err, attempt, retries) ==
  IF err.code = 503 \/ err.overloadedMsg
  THEN IF attempt < retries
       THEN [act |-> "wait", ms |-> OverloadWaitMs(attempt), kind |-> "none",
             has503 |-> FALSE]
       ELSE [act |-> "throw", ms |-> 0, kind |-> "OVERLOADED",
             has503 |-> FALSE]
  ELSE IF err.code = 429
  THEN IF attempt < retries
       THEN [act |-> "wait", ms |-> RateLimitWaitMs(attempt),
             kind |-> "none", has503 |-> FALSE]
       ELSE [act |-> "throw", ms |-> 0, kind |-> "RATE_LIMITED",
             has503 |-> FALSE]
  ELSE IF err.code = 400
  THEN [act |-> "throw", ms |-> 0, kind |-> "INVALID_REQUEST",
        has503 |-> err.has503]
  ELSE IF attempt = retries
  THEN [act |-> "throw", ms |-> 0, kind |-> "FAILED_AFTER_RETRIES",
        has503 |-> err.has503]
  ELSE [act |-> "wait", ms |-> GenericWaitMs(attempt), kind |-> "none",
        has503 |-> FALSE]

\* The head of one loop iteration of callGeminiAPI, up to its first await:
\* the size check of the attachment (payloadMB = 0: no fileData), then the
\* network call.
AttemptEntry(attempt, retries, payloadMB) ==
  IF payloadMB > GatewayPayloadCapMB
  THEN CatchBlock(LocalError, attempt, retries)
  ELSE [act |-> "call", ms |-> 0, kind |-> "none", has503 |-> FALSE]

\* variant of IsOverloadMessage that looks for "503" only
IsOverloadMessage_503Only(thrown) == thrown.has503

\* error.message.includes('OVERLOADED') || error.message.includes('503')
IsOverloadMessage(thrown) == thrown.kind = "OVERLOADED" \/ thrown.has503

\* ------------------------------------------------------------------- Init
Init ==
  /\ analysisSessions = << >>
  /\ requests = [i \in Slots |-> Idle]
  /\ issued = 0
  /\ lastResponse = NoResponse

Exists(sid) == sid \in DOMAIN analysisSessions

\* variant of FreeSlot for a server that takes one request at a time
FreeSlot_Exclusive(i) ==
  /\ i = 1
  /\ \A j \in Slots : requests[j].pc = "idle"

\* the connection a new request is taken on: the lowest one not in use
FreeSlot(i) ==
  /\ requests[i].pc = "idle"
  /\ \A j \in Slots : j < i => requests[j].pc # "idle"

\* a request reaches the server: it gets the next sequence number
Arrives == issued' = issued + 1

\* 307 answers the client has still to follow
PendingRedirects == Cardinality({i \in Slots : requests[i].pc = "redirect"})

\* the client may still send n requests besides the follow-ups it owes
Room(n) == issued + PendingRedirects + n <= MaxRequests

\* variant of SetStatus that also resets the media type
SetStatus_ResetsMediaType(sid, st) ==
  analysisSessions' = [analysisSessions EXCEPT ![sid].status = st,
                                               ![sid].mediaType = "audio"]

\* session.status = st
SetStatus(sid, st) ==
  analysisSessions' = [analysisSessions EXCEPT ![sid].status = st]

Release(i) == requests' = [requests EXCEPT ![i] = Idle]

\* the answer of the request held in slot record r
Answer(r, code, error) ==
  [Respond(r.seq, r.op, r.sid, code, error) EXCEPT !.calls = r.calls]

\* --------------------------------------------------- POST /api/initialize
\* variant of RejectsUpload without the check of the video size
RejectsUpload_NoVideoCap(u) ==
  IF (u.audio = 0 /\ u.video = 0) \/ u.cv = 0 \/ ~u.jobDescription
  THEN "Missing required fields"
  ELSE "none"

\* the two early returns of the route: a missing field, an oversized video
RejectsUpload(u) ==
  IF (u.audio = 0 /\ u.video = 0) \/ u.cv = 0 \/ ~u.jobDescription
  THEN "Missing required fields"
  ELSE IF u.video # 0 /\ u.video > VideoUploadCapMB
  THEN "Video file too large"
  ELSE "none"

Initialize(u) ==
  /\ Arrives
  /\ IF RejectsUpload(u) # "none"
     THEN /\ lastResponse' = Respond(issued', "initialize", 0, 400, RejectsUpload(u))
          /\ UNCHANGED analysisSessions
     ELSE /\ LET id == Cardinality(DOMAIN analysisSessions) + 1 IN
             /\ analysisSessions' =
                  [x \in DOMAIN analysisSessions \cup {id} |->
                     IF x = id THEN NewSession(id, u) ELSE analysisSessions[x]]
             /\ lastResponse' = Respond(issued', "initialize", id, 200, "none")
  /\ UNCHANGED requests

\* variant of StoreResult that stores the text and leaves the status alone
StoreResult_KeepsStatus(i, r, text) ==
  /\ analysisSessions' =
       [analysisSessions EXCEPT ![r.sid].results[ResultKeyOf(r.op)] = text]
  /\ lastResponse' =
       [Answer(r, 200, "none") EXCEPT
          !.nextStep = NextStepOf(r.op, analysisSessions[r.sid].mediaType)]
  /\ Release(i)

\* ------------------------------------------- the end of a stage's handler
\* the provider returned text: store it, advance the status, answer
StoreResult(i, r, text) ==
  LET s == analysisSessions[r.sid]
      key == ResultKeyOf(r.op) IN
  /\ analysisSessions' =
       [analysisSessions EXCEPT
          ![r.sid].results[key] = text,
          ![r.sid].status = CompletedStatus(r.op, s.mediaType),
          ![r.sid].completedAt = IF r.op = "final_report" THEN TRUE ELSE @]
  /\ lastResponse' =
       [Answer(r, 200, "none") EXCEPT !.nextStep = NextStepOf(r.op, s.mediaType)]
  /\ Release(i)

\* variant of UseFallback that also marks the session as completed
UseFallback_Completes(i, r, thrown) ==
  /\ analysisSessions' =
       [analysisSessions EXCEPT
          ![r.sid].results[ResultKeyOf(r.op)] = "fallback",
          ![r.sid].status = FallbackStatus(r.op, analysisSessions[r.sid].mediaType),
          ![r.sid].completedAt = TRUE]
  /\ lastResponse' =
       [Answer(r, 200, "none") EXCEPT
          !.nextStep = NextStepOf(r.op, analysisSessions[r.sid].mediaType),
          !.usedFallback = TRUE,
          !.thrown = thrown.kind]
  /\ Release(i)

\* the fallback branch of the inner catch of a file stage
UseFallback(i, r, thrown) ==
  LET s == analysisSessions[r.sid]
      key == ResultKeyOf(r.op) IN
  /\ analysisSessions' =
       [analysisSessions EXCEPT
          ![r.sid].results[key] = "fallback",
          ![r.sid].status = FallbackStatus(r.op, s.mediaType)]
  /\ lastResponse' =
       [Answer(r, 200, "none") EXCEPT !.nextStep = NextStepOf(r.op, s.mediaType),
                                      !.usedFallback = TRUE,
                                      !.thrown = thrown.kind]
  /\ Release(i)

\* variant of FailStage that marks every session of the store as failed
FailStage_EverySession(i, r, thrown) ==
  /\ analysisSessions' =
       [x \in DOMAIN analysisSessions |->
          [analysisSessions[x] EXCEPT !.status = "error"]]
  /\ lastResponse' =
       [(IF r.op = "analyze_cv" THEN Answer(r, 500, "Failed to analyze CV")
         ELSE IF thrown.kind = "RATE_LIMITED"
         THEN Answer(r, 429, "Rate limit exceeded")
         ELSE IF thrown.kind = "File too large"
         THEN IF r.op = "transcribe_media"
              THEN Answer(r, 500, "Failed to transcribe media")
              ELSE Answer(r, 400, "File too large for face analysis")
         ELSE IF r.op = "transcribe_media"
         THEN Answer(r, 500, "Failed to transcribe")
         ELSE Answer(r, 500, "Failed to analyze face"))
        EXCEPT !.thrown = thrown.kind]
  /\ Release(i)

\* the else branch of the inner catch of a file stage, and the outer catch
\* it reaches when building the answer throws (transcribe-media reads
\* processingSizeLimit outside the block that declares it)
FailStage(i, r, thrown) ==
  /\ SetStatus(r.sid, "error")
  /\ lastResponse' =
       [(IF r.op = "analyze_cv" THEN Answer(r, 500, "Failed to analyze CV")
         ELSE IF thrown.kind = "RATE_LIMITED"
         THEN Answer(r, 429, "Rate limit exceeded")
         ELSE IF thrown.kind = "File too large"
         THEN IF r.op = "transcribe_media"
              THEN Answer(r, 500, "Failed to transcribe media")
              ELSE Answer(r, 400, "File too large for face analysis")
         ELSE IF r.op = "transcribe_media"
         THEN Answer(r, 500, "Failed to transcribe")
         ELSE Answer(r, 500, "Failed to analyze face"))
        EXCEPT !.thrown = thrown.kind]
  /\ Release(i)

\* variant of FailPromptStage that ends without sending an answer
FailPromptStage_NoAnswer(i, r, thrown) ==
  /\ requests' = [requests EXCEPT ![i] = [r EXCEPT !.pc = "hung"]]
  /\ UNCHANGED <<analysisSessions, lastResponse>>

\* the catch of technical-analysis, communication-analysis and final-report:
\* it answers 500 and does not touch the session
FailPromptStage(i, r, thrown) ==
  /\ lastResponse' =
       [Answer(r, 500,
               CASE r.op = "technical_analysis" -> "Failed to perform technical analysis"
                 [] r.op = "communication_analysis" -> "Failed to perform communication analysis"
                 [] r.op = "final_report" -> "Failed to generate final report")
        EXCEPT !.thrown = thrown.kind]
  /\ Release(i)
  /\ UNCHANGED analysisSessions

\* GET /api/status: the catch answers 503 degraded
FailHealth(i, r, thrown) ==
  /\ lastResponse' = [Answer(r, 503, "degraded") EXCEPT !.thrown = thrown.kind]
  /\ Release(i)
  /\ UNCHANGED analysisSessions

\* callGeminiAPI threw: the catch block of the calling route
HandlerCatch(i, r, thrown) ==
  IF r.op \in FileStages
  THEN IF IsOverloadMessage(thrown)
       THEN UseFallback(i, r, thrown)
       ELSE FailStage(i, r, thrown)
  ELSE IF r.op = "health" THEN FailHealth(i, r, thrown)
  ELSE FailPromptStage(i, r, thrown)

\* callGeminiAPI returned: the rest of the calling route
HandlerReturn(i, r, text) ==
  IF r.op = "health"
  THEN /\ lastResponse' = Answer(r, 200, "none")
       /\ Release(i)
       /\ UNCHANGED analysisSessions
  ELSE StoreResult(i, r, text)

\* The request r is suspended in iteration `attempt` of callGeminiAPI, in
\* the network call or in the delay that AttemptEntry/CatchBlock decided.
Suspended(r, attempt, e) ==
  IF e.act = "call"
  THEN [r EXCEPT !.pc = "call", !.attempt = attempt, !.calls = @ + 1,
                 !.waitMs = 0]
  ELSE [r EXCEPT !.pc = "wait", !.attempt = attempt, !.waits = @ + 1,
                 !.waitMs = e.ms]

\* the request r of slot i goes on inside callGeminiAPI as e decided
Proceed(i, r, attempt, e) ==
  IF e.act = "throw"
  THEN HandlerCatch(i, r, e)
  ELSE /\ requests' = [requests EXCEPT ![i] = Suspended(r, attempt, e)]
       /\ UNCHANGED <<analysisSessions, lastResponse>>

\* the attachment a route passes to callGeminiAPI, in MB (0: none)
PayloadMB(r) ==
  CASE r.op = "analyze_cv" -> analysisSessions[r.sid].cvSizeMB
    [] r.op \in {"transcribe_media", "face_analysis"} ->
         analysisSessions[r.sid].mediaSizeMB
    [] OTHER -> 0

\* ------------------------------------------------------ the stage routes
\* requiredAnalyses.filter(analysis => !session.results[analysis])
missingAnalyses(results) ==
  { requiredAnalyses[n] : n \in { m \in 1..Len(requiredAnalyses) :
                                    ~Truthy(results[requiredAnalyses[m]]) } }

\* variant of PrerequisiteError that tests the transcription only
PrerequisiteError_TranscriptionOnly(op, results) ==
  IF op \in PromptStages /\ ~Truthy(results["transcription"])
  THEN "Transcription not available" ELSE "none"

\* the prerequisite check of a prompt stage: the error it answers, or "none"
PrerequisiteError(op, results) ==
  CASE op = "technical_analysis" ->
         IF ~Truthy(results["transcription"]) \/ ~Truthy(results["cvAnalysis"])
         THEN "Previous analysis steps not completed" ELSE "none"
    [] op = "communication_analysis" ->
         IF ~Truthy(results["transcription"])
         THEN "Transcription not available" ELSE "none"
    [] op = "final_report" ->
         IF missingAnalyses(results) # {} THEN "Incomplete analysis" ELSE "none"
    [] OTHER -> "none"

\* variant of FaceUnavailable that lets every session through
FaceUnavailable_NoGuard(s) == FALSE

\* the guard of face-analysis
FaceUnavailable(s) == s.mediaType # "video" \/ ~s.videoPath

\* A stage route from the arrival of the request r to its first await.
FirstSegment(i, r) ==
  IF ~Exists(r.sid)
  THEN /\ lastResponse' = Answer(r, 404, "Session not found")
       /\ Release(i)
       /\ UNCHANGED analysisSessions
  ELSE
    LET s == analysisSessions[r.sid] IN
    CASE r.op = "analyze_cv" ->
           /\ SetStatus(r.sid, "analyzing_cv")
           /\ requests' = [requests EXCEPT ![i] = [r EXCEPT !.pc = "read"]]
           /\ UNCHANGED lastResponse
      [] r.op = "transcribe_media" ->
           /\ SetStatus(r.sid, "transcribing_media")
           /\ requests' = [requests EXCEPT ![i] = [r EXCEPT !.pc = "stat"]]
           /\ UNCHANGED lastResponse
      [] r.op = "face_analysis" ->
           IF FaceUnavailable(s)
           THEN /\ lastResponse' =
                     Answer(r, 400, "Face analysis only available for video files")
                /\ Release(i)
                /\ UNCHANGED analysisSessions
           ELSE /\ SetStatus(r.sid, "analyzing_face")
                /\ requests' = [requests EXCEPT ![i] = [r EXCEPT !.pc = "stat"]]
                /\ UNCHANGED lastResponse
      [] r.op \in PromptStages ->
           IF PrerequisiteError(r.op, s.results) # "none"
           THEN /\ lastResponse' =
                     [Answer(r, 400, PrerequisiteError(r.op, s.results))
                        EXCEPT !.missing = IF r.op = "final_report"
                                           THEN missingAnalyses(s.results)
                                           ELSE {}]
                /\ Release(i)
                /\ UNCHANGED analysisSessions
           ELSE /\ SetStatus(r.sid, InProgressStatus(r.op))
                /\ requests' = [requests EXCEPT ![i] =
                     Suspended(r, 1, AttemptEntry(1, RetriesOf(r.op), 0))]
                /\ UNCHANGED lastResponse

\* POST /api/<stage>/:sessionId arrives
StartStage(i, op, sid) ==
  /\ FreeSlot(i)
  /\ Arrives
  /\ FirstSegment(i, [Idle EXCEPT !.seq = issued', !.op = op, !.sid = sid])

\* variant of UploadCapMB with the limit of the upload middleware only
UploadCapMB_Unlimited(op, mediaType) == 50

\* the caps of transcribe-media and face-analysis after fs.stat
UploadCapMB(op, mediaType) ==
  IF op = "face_analysis" THEN FaceUploadCapMB
  ELSE IF mediaType = "audio" THEN AudioUploadCapMB ELSE VideoUploadCapMB

ProcessingCapMB(op, mediaType) ==
  IF op = "face_analysis" THEN FaceProcessingCapMB
  ELSE IF mediaType = "audio" THEN AudioProcessingCapMB ELSE VideoProcessingCapMB

TooLargeThrown == [act |-> "throw", ms |-> 0, kind |-> "File too large", has503 |-> FALSE]

\* fs.stat returned: the two size checks of transcribe-media / face-analysis
StatReturns(i) ==
  LET r == requests[i] IN
  /\ r.pc = "stat"
  /\ LET s == analysisSessions[r.sid] IN
     IF s.mediaSizeMB > UploadCapMB(r.op, s.mediaType)
     THEN /\ SetStatus(r.sid, "error")
          /\ lastResponse' = Answer(r, 400, "file too large for processing")
          /\ Release(i)
     ELSE IF s.mediaSizeMB > ProcessingCapMB(r.op, s.mediaType)
     THEN HandlerCatch(i, r, TooLargeThrown)
     ELSE /\ requests' = [requests EXCEPT ![i] = [r EXCEPT !.pc = "read"]]
          /\ UNCHANGED <<analysisSessions, lastResponse>>
  /\ UNCHANGED issued

\* fileToBase64 returned: callGeminiAPI starts its first iteration
FileRead(i) ==
  LET r == requests[i] IN
  /\ r.pc = "read"
  /\ Proceed(i, r, 1, AttemptEntry(1, RetriesOf(r.op), PayloadMB(r)))
  /\ UNCHANGED issued

\* axios.post settled with outcome o
ProviderReturns(i, o) ==
  LET r == requests[i] IN
  /\ r.pc = "call"
  /\ IF o.kind = "text"
     THEN HandlerReturn(i, r, o.text)
     ELSE Proceed(i, r, r.attempt,
                  CatchBlock(IF o.kind = "nocontent" THEN LocalError ELSE o,
                             r.attempt, RetriesOf(r.op)))
  /\ UNCHANGED issued

\* delay(ms) elapsed: the loop goes to its next iteration
DelayElapses(i) ==
  LET r == requests[i] IN
  /\ r.pc = "wait"
  /\ Proceed(i, r, r.attempt + 1,
             AttemptEntry(r.attempt + 1, RetriesOf(r.op), PayloadMB(r)))
  /\ UNCHANGED issued

\* ------------------------------------- POST /api/fallback/:sessionId/:step
StageOfStep(step) ==
  CASE step = "cv_analysis" -> "analyze_cv"
    [] step = "transcription" -> "transcribe_media"
    [] OTHER -> step

\* variant of ForceFallback that sets the _fallback status only when the
\* step had no result yet, and the status of a completed step otherwise
ForceFallback_StatusByPresence(sid, step) ==
  /\ Arrives
  /\ LET r == [Idle EXCEPT !.seq = issued', !.op = "fallback", !.sid = sid]
         op == StageOfStep(step) IN
     IF ~Exists(sid)
     THEN /\ lastResponse' = Answer(r, 404, "Session not found")
          /\ UNCHANGED analysisSessions
     ELSE IF step \notin FallbackSteps
     THEN /\ lastResponse' =
                 [Answer(r, 400, "Fallback not available for this step")
                    EXCEPT !.availableSteps = FallbackSteps]
          /\ UNCHANGED analysisSessions
     ELSE IF step = "face_analysis" /\ analysisSessions[sid].mediaType # "video"
     THEN /\ lastResponse' = Answer(r, 400, "Face analysis not available")
          /\ UNCHANGED analysisSessions
     ELSE /\ analysisSessions' =
               [analysisSessions EXCEPT
                  ![sid].results[ResultKeyOf(op)] = "fallback",
                  ![sid].status =
                     IF analysisSessions[sid].results[ResultKeyOf(op)] = "none"
                     THEN FallbackStatus(op, analysisSessions[sid].mediaType)
                     ELSE CompletedStatus(op, analysisSessions[sid].mediaType)]
          /\ lastResponse' =
               [Answer(r, 200, "none") EXCEPT
                  !.nextStep = NextStepOf(op, analysisSessions[sid].mediaType),
                  !.usedFallback = TRUE]
  /\ UNCHANGED requests

\* the route stores the step's fallback text and answers
ForceFallback(sid, step) ==
  /\ Arrives
  /\ LET r == [Idle EXCEPT !.seq = issued', !.op = "fallback", !.sid = sid] IN
     IF ~Exists(sid)
     THEN /\ lastResponse' = Answer(r, 404, "Session not found")
          /\ UNCHANGED analysisSessions
     ELSE
       LET s == analysisSessions[sid]
           op == StageOfStep(step) IN
       IF step \notin FallbackSteps
       THEN /\ lastResponse' =
                 [Answer(r, 400, "Fallback not available for this step")
                    EXCEPT !.availableSteps = FallbackSteps]
            /\ UNCHANGED analysisSessions
       ELSE IF step = "face_analysis" /\ s.mediaType # "video"
       THEN /\ lastResponse' = Answer(r, 400, "Face analysis not available")
            /\ UNCHANGED analysisSessions
       ELSE /\ analysisSessions' =
                 [analysisSessions EXCEPT
                    ![sid].results[ResultKeyOf(op)] = "fallback",
                    ![sid].status = FallbackStatus(op, s.mediaType)]
            /\ lastResponse' =
                 [Answer(r, 200, "none") EXCEPT
                    !.nextStep = NextStepOf(op, s.mediaType),
                    !.usedFallback = TRUE]
  /\ UNCHANGED requests

\* ---------------------------------------- POST /api/retry/:sessionId/:step
\* variant of RetryStatus that always goes back to initialized
RetryStatus_AlwaysInitialized(step, s) == "initialized"

\* the status the retry route writes before it redirects
RetryStatus(step, s) ==
  CASE step = "cv_analysis" -> "initialized"
    [] step = "transcription" -> "cv_analyzed"
    [] step = "face_analysis" -> s.mediaType \o "_transcribed"
    [] step = "technical_analysis" ->
         IF Truthy(s.results["faceAnalysis"]) THEN "face_analyzed"
         ELSE s.mediaType \o "_transcribed"
    [] step = "communication_analysis" -> "technical_analyzed"
    [] step = "final_report" -> "communication_analyzed"

\* variant of Retry that resets the status and keeps the stored result
Retry_KeepsResult(i, sid, step) ==
  /\ FreeSlot(i)
  /\ Arrives
  /\ LET r == [Idle EXCEPT !.seq = issued', !.op = "retry", !.sid = sid] IN
     IF ~Exists(sid)
     THEN /\ lastResponse' = Answer(r, 404, "Session not found")
          /\ UNCHANGED <<analysisSessions, requests>>
     ELSE IF step \notin RetrySteps
     THEN /\ lastResponse' = [Answer(r, 400, "Invalid step")
                               EXCEPT !.availableSteps = RetrySteps]
          /\ UNCHANGED <<analysisSessions, requests>>
     ELSE /\ analysisSessions' =
               [analysisSessions EXCEPT
                  ![sid].status = RetryStatus(step, analysisSessions[sid])]
          /\ lastResponse' =
               [Answer(r, 307, "none") EXCEPT !.nextStep = StageOfStep(step)]
          /\ requests' = [requests EXCEPT ![i] =
               [Idle EXCEPT !.op = StageOfStep(step), !.sid = sid,
                            !.pc = "redirect", !.viaRetry = TRUE]]

\* The route answers 307; the client's follow-up request is held in slot i
\* until it arrives (FollowRedirect).
Retry(i, sid, step) ==
  /\ FreeSlot(i)
  /\ Arrives
  /\ LET r == [Idle EXCEPT !.seq = issued', !.op = "retry", !.sid = sid] IN
     IF ~Exists(sid)
     THEN /\ lastResponse' = Answer(r, 404, "Session not found")
          /\ UNCHANGED <<analysisSessions, requests>>
     ELSE IF step \notin RetrySteps
     THEN /\ lastResponse' = [Answer(r, 400, "Invalid step")
                               EXCEPT !.availableSteps = RetrySteps]
          /\ UNCHANGED <<analysisSessions, requests>>
     ELSE /\ analysisSessions' =
               [analysisSessions EXCEPT
                  ![sid].status = RetryStatus(step, analysisSessions[sid]),
                  ![sid].results[ResultKeyOf(StageOfStep(step))] = "none"]
          /\ lastResponse' =
               [Answer(r, 307, "none") EXCEPT !.nextStep = StageOfStep(step)]
          /\ requests' = [requests EXCEPT ![i] =
               [Idle EXCEPT !.op = StageOfStep(step), !.sid = sid,
                            !.pc = "redirect", !.viaRetry = TRUE]]

\* the client follows the 307: the stage route receives the request
FollowRedirect(i) ==
  /\ requests[i].pc = "redirect"
  /\ Arrives
  /\ FirstSegment(i, [requests[i] EXCEPT !.seq = issued', !.pc = "idle"])

\* ----------------------------------------------- GET /api/session/:sessionId
\* variant of GetSession that answers 200 for any id
GetSession_AlwaysFound(sid) ==
  /\ Arrives
  /\ lastResponse' = Respond(issued', "session", sid, 200, "none")
  /\ UNCHANGED <<analysisSessions, requests>>

\* the session is looked up and returned
GetSession(sid) ==
  /\ Arrives
  /\ lastResponse' =
       IF Exists(sid)
       THEN Respond(issued', "session", sid, 200, "none")
       ELSE Respond(issued', "session", sid, 404, "Session not found")
  /\ UNCHANGED <<analysisSessions, requests>>

\* ------------------------------------------------------- GET /api/status
HealthCheck(i) ==
  /\ FreeSlot(i)
  /\ Arrives
  /\ requests' = [requests EXCEPT ![i] =
       Suspended([Idle EXCEPT !.seq = issued', !.op = "health"], 1,
                 AttemptEntry(1, RetriesOf("health"), 0))]
  /\ UNCHANGED <<analysisSessions, lastResponse>>

\* ------------------------------------------------------------------- Next
\* no request is in flight and no redirect is waiting to be followed
AllAnswered == \A i \in Slots : requests[i].pc = "idle"

\* the store has room for the session an accepted upload creates
StoreHasRoom(u) ==
  RejectsUpload(u) = "none" => Cardinality(DOMAIN analysisSessions) < MaxSessions

\* A client that sends any request to any session, MaxRequests in all, and
\* waits for each answer before it sends the next request.
ClientRequest ==
  \/ /\ AllAnswered
     /\ Room(1)
     /\ \/ \E u \in WorkflowUploads : StoreHasRoom(u) /\ Initialize(u)
        \/ \E i \in Slots, op \in StageOps, sid \in AddressableIds :
              StartStage(i, op, sid)
        \/ \E sid \in AddressableIds, step \in StepNames : ForceFallback(sid, step)
        \/ \E sid \in AddressableIds : GetSession(sid)
        \/ \E i \in Slots : HealthCheck(i)
  \/ /\ AllAnswered
     /\ Room(2)
     /\ \E i \in Slots, sid \in AddressableIds, step \in StepNames :
          Retry(i, sid, step)
  \/ \E i \in Slots : FollowRedirect(i)

\* the event loop resumes a suspended handler
Resume ==
  \/ \E i \in Slots : StatReturns(i)
  \/ \E i \in Slots : FileRead(i)
  \/ \E i \in Slots, o \in ProviderOutcomes : ProviderReturns(i, o)
  \/ \E i \in Slots : DelayElapses(i)

Next == ClientRequest \/ Resume

Spec == Init /\ [][Next]_vars

\* ------------------------------------------------- the nominal pipeline
\* the order in which the answers' nextStep lead a client through the stages
NominalOrder(mediaType) ==
  IF mediaType = "video"
  THEN <<"analyze_cv", "transcribe_media", "face_analysis",
         "technical_analysis", "communication_analysis", "final_report">>
  ELSE <<"analyze_cv", "transcribe_media",
         "technical_analysis", "communication_analysis", "final_report">>

\* A client that creates one session and then requests every stage once, in
\* the nominal order, each after the answer to the one before, whatever
\* that answer was.
NominalClient ==
  \/ /\ issued = 0
     /\ \E u \in WorkflowUploads : RejectsUpload(u) = "none" /\ Initialize(u)
  \/ /\ AllAnswered
     /\ 1 \in DOMAIN analysisSessions
     /\ issued <= Len(NominalOrder(analysisSessions[1].mediaType))
     /\ StartStage(1, NominalOrder(analysisSessions[1].mediaType)[issued], 1)

NominalNext == NominalClient \/ Resume

SpecNominal == Init /\ [][NominalNext]_vars

\* --------------------------------------- a final report on any session
\* The results a session can hold: every key is absent or holds a text its
\* stage can store (a fallback exists for the three file stages only), and
\* an audio session never holds faceAnalysis.  Each combination is reached
\* by running the pipeline, re-running stages for the wanted texts and
\* deleting keys with retries whose re-invoked stage fails.
PossibleResults(mediaType) ==
  { res \in [ResultKeys -> {"none", "ai", "empty", "fallback"}] :
      /\ \A k \in {"technicalAnalysis", "communicationAnalysis", "finalReport"} :
           res[k] # "fallback"
      /\ mediaType = "audio" => res["faceAnalysis"] = "none" }

\* requests a client has sent by the time the session is in such a state
PriorRequests == 25

\* A session with any possible results, right after a cv analysis that the
\* provider refused (status error), and a client that requests the final
\* report.
FinalReportInit ==
  /\ \E u \in WorkflowUploads :
       /\ RejectsUpload(u) = "none"
       /\ \E res \in PossibleResults(NewSession(1, u).mediaType) :
            analysisSessions =
              [x \in {1} |->
                 [NewSession(1, u) EXCEPT
                    !.status = "error",
                    !.results = res,
                    !.completedAt = (res["finalReport"] # "none")]]
  /\ requests = [i \in Slots |-> Idle]
  /\ issued = PriorRequests
  /\ lastResponse =
       [Respond(PriorRequests, "analyze_cv", 1, 500, "Failed to analyze CV")
          EXCEPT !.calls = 1, !.thrown = "INVALID_REQUEST"]

FinalReportNext ==
  \/ /\ AllAnswered
     /\ issued = PriorRequests
     /\ StartStage(1, "final_report", 1)
  \/ \E o \in ProviderOutcomes : ProviderReturns(1, o)
  \/ DelayElapses(1)

SpecFinalReport == FinalReportInit /\ [][FinalReportNext]_vars

\* ------------------------------------------- a retry on any session
\* A session with any possible results, and a client that retries one step
\* and follows the redirect.
RetryNext ==
  \/ /\ AllAnswered
     /\ issued = PriorRequests
     /\ \E step \in StepNames : Retry(1, 1, step)
  \/ FollowRedirect(1)
  \/ StatReturns(1)
  \/ FileRead(1)
  \/ \E o \in ProviderOutcomes : ProviderReturns(1, o)
  \/ DelayElapses(1)

SpecRetry == FinalReportInit /\ [][RetryNext]_vars

\* ------------------------------------------ a stage on any session
\* A session with any possible results, and a client that requests one
\* stage, directly or through a retry.
StageNext ==
  \/ /\ AllAnswered
     /\ issued = PriorRequests
     /\ \E op \in StageOps : StartStage(1, op, 1)
  \/ RetryNext

SpecStage == FinalReportInit /\ [][StageNext]_vars

\* ------------------------------- recovering a session: retry and fallback
\* A session with any possible results, and a client that retries a step
\* or forces the fallback of a step, a few requests in all.
MaxRecoveries == 3

RecoveryNext ==
  \/ RetryNext
  \/ /\ AllAnswered
     /\ issued < PriorRequests + MaxRecoveries
     /\ \E step \in StepNames : ForceFallback(1, step)

SpecRecovery == FinalReportInit /\ [][RecoveryNext]_vars

\* --------------------------------------- callGeminiAPI called on its own
\* A caller that invokes callGeminiAPI once, with any retries argument up
\* to MaxBudget and an attachment of any of these decoded sizes (0: no
\* fileData), against every sequence of provider outcomes.
MaxBudget == 5

PayloadSizesMB == {0, 5, 21}

\* the invocation before its first loop iteration
InvokeRecord(retries, payloadMB) ==
  [seq |-> 0, op |-> "invoke", sid |-> 0, pc |-> "enter", attempt |-> 0,
   calls |-> 0, waits |-> 0, waitMs |-> 0, viaRetry |-> FALSE,
   retries |-> retries, payloadMB |-> payloadMB]

\* what the caller observes when callGeminiAPI ends: the text it returned or
\* the kind of the Error it threw, and what the invocation r did before
InvokeResult(r, returned, thrown) ==
  [op |-> "invoke", returned |-> returned, thrown |-> thrown.kind,
   has503 |-> thrown.has503, attempt |-> r.attempt, retries |-> r.retries,
   payloadMB |-> r.payloadMB, calls |-> r.calls, waits |-> r.waits]

NothingThrown == [act |-> "return", ms |-> 0, kind |-> "none", has503 |-> FALSE]

InvokeInit ==
  /\ analysisSessions = << >>
  /\ issued = 0
  /\ lastResponse = NoResponse
  /\ \E retries \in 1..MaxBudget, payloadMB \in PayloadSizesMB :
       requests = [i \in Slots |->
                     IF i = 1 THEN InvokeRecord(retries, payloadMB) ELSE Idle]

\* the invocation goes on as AttemptEntry or CatchBlock decided
InvokeProceed(r, attempt, e) ==
  /\ IF e.act = "throw"
     THEN /\ lastResponse' = InvokeResult([r EXCEPT !.attempt = attempt], "none", e)
          /\ Release(1)
     ELSE /\ requests' = [requests EXCEPT ![1] = Suspended(r, attempt, e)]
          /\ UNCHANGED lastResponse
  /\ UNCHANGED <<analysisSessions, issued>>

\* the for loop starts: attempt = 1
InvokeEnters ==
  LET r == requests[1] IN
  /\ r.pc = "enter"
  /\ InvokeProceed(r, 1, AttemptEntry(1, r.retries, r.payloadMB))

\* axios.post settled with outcome o
InvokeSettles(o) ==
  LET r == requests[1] IN
  /\ r.op = "invoke"
  /\ r.pc = "call"
  /\ IF o.kind = "text"
     THEN /\ lastResponse' = InvokeResult(r, o.text, NothingThrown)
          /\ Release(1)
          /\ UNCHANGED <<analysisSessions, issued>>
     ELSE InvokeProceed(r, r.attempt,
                        CatchBlock(IF o.kind = "nocontent" THEN LocalError ELSE o,
                                   r.attempt, r.retries))

\* delay(ms) elapsed: attempt++
InvokeDelayElapses ==
  LET r == requests[1] IN
  /\ r.op = "invoke"
  /\ r.pc = "wait"
  /\ InvokeProceed(r, r.attempt + 1,
                   AttemptEntry(r.attempt + 1, r.retries, r.payloadMB))

InvokeNext ==
  \/ InvokeEnters
  \/ \E o \in ProviderOutcomes : InvokeSettles(o)
  \/ InvokeDelayElapses

SpecInvoke == InvokeInit /\ [][InvokeNext]_vars

\* ------------------------------------------- every call site of the gateway
\* The nominal client, which asks GET /api/status after the last stage: every
\* call site of callGeminiAPI is exercised.
CallSitesNext ==
  \/ NominalNext
  \/ /\ AllAnswered
     /\ 1 \in DOMAIN analysisSessions
     /\ issued = Len(NominalOrder(analysisSessions[1].mediaType)) + 1
     /\ HealthCheck(1)

SpecCallSites == Init /\ [][CallSitesNext]_vars

\* The same, when every pending await settles: axios.post returns or times
\* out (timeout: 120000), timers fire and file operations complete.
SpecCallSitesLive == Init /\ [][CallSitesNext]_vars /\ WF_vars(Resume)

\* ------------------------------------------ requests that overlap in time
\* Two sessions, each just created from an accepted upload, and two clients
\* that send one stage request each, to either session, the second without
\* waiting for the answer to the first.
OverlapInit ==
  /\ \E u1 \in WorkflowUploads, u2 \in WorkflowUploads :
       /\ RejectsUpload(u1) = "none"
       /\ RejectsUpload(u2) = "none"
       /\ analysisSessions =
            [x \in {1, 2} |-> IF x = 1 THEN NewSession(1, u1) ELSE NewSession(2, u2)]
  /\ requests = [i \in Slots |-> Idle]
  /\ issued = 2
  /\ lastResponse = Respond(2, "initialize", 2, 200, "none")

OverlapNext ==
  \/ /\ issued < 2 + Cardinality(DOMAIN analysisSessions)
     /\ \E i \in Slots, op \in StageOps, sid \in DOMAIN analysisSessions :
          StartStage(i, op, sid)
  \/ Resume

SpecOverlap == OverlapInit /\ [][OverlapNext]_vars

\* ------------------------------------------------ uploads of every size
\* A client that uploads any of the Uploads, files above the caps of the
\* stage routes included, and then requests the stages that read the
\* stored files, each request after the answer to the one before,
\* MaxRequests in all.
IntakeNext ==
  \/ /\ AllAnswered
     /\ issued < MaxRequests
     /\ \/ \E u \in Uploads : StoreHasRoom(u) /\ Initialize(u)
        \/ \E op \in FileStages, sid \in DOMAIN analysisSessions :
             StartStage(1, op, sid)
  \/ Resume

SpecIntake == Init /\ [][IntakeNext]_vars

\* ------------------------------------------------- the same request twice
\* what a client sees of a session: its status and its results
Observed(s) == [status |-> s.status, results |-> s.results]

\* A stage request like StartStage, sent by a client that keeps what it saw
\* after its previous request: the session and the answer.
RepeatStage(op) ==
  /\ FreeSlot(1)
  /\ Arrives
  /\ FirstSegment(1, [Idle EXCEPT !.seq = issued', !.op = op, !.sid = 1] @@
                     [before |-> Observed(analysisSessions[1]),
                      first |-> lastResponse])

\* A session with any possible results, and a client that requests a stage
\* or forces a fallback and, once answered, sends the same kind of request
\* again.
TwiceNext ==
  \/ /\ AllAnswered
     /\ issued = PriorRequests
     /\ \/ \E op \in StageOps : StartStage(1, op, 1)
        \/ \E step \in StepNames : ForceFallback(1, step)
  \/ /\ AllAnswered
     /\ issued = PriorRequests + 1
     /\ \/ lastResponse.op \in StageOps /\ RepeatStage(lastResponse.op)
        \/ lastResponse.op = "fallback" /\ \E step \in StepNames : ForceFallback(1, step)
  \/ StatReturns(1)
  \/ FileRead(1)
  \/ \E o \in ProviderOutcomes : ProviderReturns(1, o)
  \/ DelayElapses(1)

SpecTwice == FinalReportInit /\ [][TwiceNext]_vars

\* ------------------------------------- requests that share one session
\* any request that names a session: a stage, a forced fallback, a retry or
\* a fetch of the session
AnyRequest(sid) ==
  \/ \E i \in Slots, op \in StageOps : StartStage(i, op, sid)
  \/ \E step \in StepNames : ForceFallback(sid, step)
  \/ \E i \in Slots, step \in StepNames : Retry(i, sid, step)
  \/ GetSession(sid)

\* A session with any possible results, a client that requests the final
\* report and a second client that sends one request of any kind for the
\* same session while the final report is with the provider, following the
\* redirect if the request was a retry.
RaceNext ==
  \/ /\ issued = PriorRequests
     /\ StartStage(1, "final_report", 1)
  \/ /\ issued = PriorRequests + 1
     /\ requests[1].pc \in {"call", "wait"}
     /\ AnyRequest(1)
  \/ FollowRedirect(2)
  \/ Resume

SpecRace == FinalReportInit /\ [][RaceNext]_vars

\* Two sessions, each just created, and two clients that send one request
\* of any kind each, to either session, the second without waiting for the
\* answer to the first; a retry is followed by the request it redirects to.
CrowdNext ==
  \/ /\ issued + PendingRedirects < 2 + Cardinality(DOMAIN analysisSessions)
     /\ \E sid \in DOMAIN analysisSessions : AnyRequest(sid)
  \/ \E i \in Slots : FollowRedirect(i)
  \/ Resume

SpecCrowd == OverlapInit /\ [][CrowdNext]_vars

TypeOK ==
  /\ DOMAIN analysisSessions \subseteq SessionIds
  /\ issued \in Nat
  /\ \A i \in Slots : requests[i].attempt \in 0..DefaultRetries

\* =========================================================================
\* Properties
\* =========================================================================

\* the stage request of slot i reaches its route in this step, directly or
\* as the follow-up of a retry
StageArrives(i, op, sid) ==
  \/ StartStage(i, op, sid)
  \/ requests[i].op = op /\ requests[i].sid = sid /\ FollowRedirect(i)

\* the keys a stage needs in results before it may run
Prerequisites(op) ==
  CASE op = "technical_analysis" -> {"transcription", "cvAnalysis"}
    [] op = "communication_analysis" -> {"transcription"}
    [] op = "final_report" ->
         {"cvAnalysis", "transcription", "technicalAnalysis", "communicationAnalysis"}
    [] OTHER -> {}

\* the key holds a non-empty text; the routes test results by truthiness, so
\* a stored empty text reads as an absent key
HasContent(s, k) == s.results[k] \in {"ai", "fallback"}

\* what the catch block of callGeminiAPI does with outcome o of the call
\* the request of slot i is waiting for
CaughtBy(i, o) ==
  CatchBlock(IF o.kind = "error" THEN o ELSE LocalError,
             requests[i].attempt, RetriesOf(requests[i].op))

\* in this step the provider call of slot i settles with o and callGeminiAPI
\* throws an error of one of the kinds
GatewayFails(i, o, kinds) ==
  /\ requests[i].pc = "call"
  /\ requests[i].op \in StageOps
  /\ o.kind # "text"
  /\ CaughtBy(i, o).act = "throw"
  /\ CaughtBy(i, o).kind \in kinds
  /\ ProviderReturns(i, o)

\* the stage's fallback text is stored, its _fallback status is set and the
\* caller gets a success answer
EndsOnFallback(i) ==
  LET r == requests[i]
      s == analysisSessions'[r.sid] IN
  /\ s.results[ResultKeyOf(r.op)] = "fallback"
  /\ s.status = FallbackStatus(r.op, s.mediaType)
  /\ requests'[i] = Idle
  /\ lastResponse'.op = r.op
  /\ lastResponse'.code = 200
  /\ lastResponse'.usedFallback
  /\ lastResponse'.nextStep = NextStepOf(r.op, s.mediaType)

\* C2: in an audio session results never holds faceAnalysis, and a
\* face-analysis request never gets past its guard: it is never suspended in
\* a file or provider call, and its answer reports zero gateway calls.
C2_AudioNeverFace ==
  \A sid \in DOMAIN analysisSessions :
    analysisSessions[sid].mediaType = "audio" =>
      /\ analysisSessions[sid].results["faceAnalysis"] = "none"
      /\ analysisSessions[sid].status \notin
           {"analyzing_face", "face_analyzed", "face_analyzed_fallback"}
      /\ \A i \in Slots :
           (requests[i].op = "face_analysis" /\ requests[i].sid = sid) =>
             (requests[i].pc = "redirect" /\ requests[i].calls = 0)
      /\ (lastResponse.op = "face_analysis" /\ lastResponse.sid = sid) =>
           (lastResponse.code = 400 /\ lastResponse.calls = 0)

\* C2 witness: a face-analysis request on an audio session was answered
C2_Witness ==
  /\ lastResponse.op = "face_analysis"
  /\ lastResponse.sid \in DOMAIN analysisSessions
  /\ analysisSessions[lastResponse.sid].mediaType = "audio"
  /\ lastResponse.code = 400

\* C3: a prompt stage requested while one of its prerequisite keys is absent
\* is answered 400 with zero gateway calls, is not suspended, and leaves the
\* whole store (status and results of the session) as it was.
C3_MissingPrerequisiteRejected ==
  [][\A sid \in DOMAIN analysisSessions, op \in PromptStages :
       (\E k \in Prerequisites(op) : ~HasContent(analysisSessions[sid], k))
       => \A i \in Slots :
            StageArrives(i, op, sid)
            => /\ analysisSessions' = analysisSessions
               /\ requests'[i] = Idle
               /\ lastResponse'.op = op
               /\ lastResponse'.code = 400
               /\ lastResponse'.calls = 0]_vars

\* C3 witness: technical-analysis was refused on a session without cvAnalysis
C3_Witness ==
  /\ lastResponse.op = "technical_analysis"
  /\ lastResponse.code = 400
  /\ lastResponse.sid \in DOMAIN analysisSessions
  /\ analysisSessions[lastResponse.sid].results["cvAnalysis"] = "none"
  /\ analysisSessions[lastResponse.sid].results["transcription"] # "none"

\* C7: an upload whose video is above the 10 MB cap is answered 400, adds no
\* session, starts no handler and makes zero gateway calls.
C7_OversizedVideoRejected ==
  [][\A u \in Uploads :
       (u.video > VideoUploadCapMB /\ Initialize(u))
       => /\ analysisSessions' = analysisSessions
          /\ requests' = requests
          /\ lastResponse'.code = 400
          /\ lastResponse'.calls = 0]_vars

\* C7 witness: an oversized video upload was answered
C7_Witness ==
  /\ lastResponse.op = "initialize"
  /\ lastResponse.error = "Video file too large"

\* C1 as stated: for every session and stage, the stage's key is in results
\* if and only if the status is that stage's completed or fallback value.
C1_KeyIffCompletedStatus ==
  \A sid \in DOMAIN analysisSessions : \A op \in StageOps :
    LET s == analysisSessions[sid] IN
    (s.results[ResultKeyOf(op)] # "none")
      <=> \/ s.status = CompletedStatus(op, s.mediaType)
          \/ op \in FileStages /\ s.status = FallbackStatus(op, s.mediaType)

\* C1 amended: when a stage has answered with success and nothing else has
\* been requested since, the stage's key is in results and the status is
\* that stage's completed or fallback value.
C1_KeyAndStatusAtSuccess ==
  ( /\ AllAnswered
    /\ lastResponse.op \in StageOps
    /\ lastResponse.code = 200 )
  => LET s == analysisSessions[lastResponse.sid]
         op == lastResponse.op IN
     /\ s.results[ResultKeyOf(op)] # "none"
     /\ \/ s.status = CompletedStatus(op, s.mediaType)
        \/ op \in FileStages /\ s.status = FallbackStatus(op, s.mediaType)

\* C1 witness: cv analysis has just answered with generated text
C1_Witness ==
  /\ AllAnswered
  /\ lastResponse.op = "analyze_cv"
  /\ lastResponse.code = 200
  /\ analysisSessions[lastResponse.sid].results["cvAnalysis"] = "ai"
  /\ analysisSessions[lastResponse.sid].status = "cv_analyzed"

\* C4: when a provider attempt of a fallback-eligible stage fails with code
\* 503, whatever its message text, the invocation either waits and stays
\* untouched (attempts remain) or, on its last attempt, ends on the fallback
\* path; a waiting invocation then makes its next attempt.  So an invocation
\* whose attempts all fail with 503 ends on the fallback path and never sets
\* the status error.
C4_Overload503EndsOnFallback ==
  [][\A i \in Slots :
       requests[i].op \in FileStages =>
         /\ requests[i].pc = "call" =>
              \A o \in { e \in ProviderErrors : e.code = 503 } :
                ProviderReturns(i, o)
                => IF requests[i].attempt < RetriesOf(requests[i].op)
                   THEN /\ requests'[i].pc = "wait"
                        /\ requests'[i].attempt = requests[i].attempt
                        /\ analysisSessions' = analysisSessions
                        /\ lastResponse' = lastResponse
                   ELSE /\ EndsOnFallback(i)
                        /\ lastResponse'.thrown = "OVERLOADED"
         /\ ( /\ requests[i].pc = "wait"
              /\ PayloadMB(requests[i]) <= GatewayPayloadCapMB
              /\ DelayElapses(i) )
            => /\ requests'[i].pc = "call"
               /\ requests'[i].attempt = requests[i].attempt + 1
               /\ analysisSessions' = analysisSessions]_vars

\* C4 witness: a transcription used all three attempts and ended on the
\* fallback path because the gateway threw OVERLOADED
C4_Witness ==
  /\ lastResponse.op = "transcribe_media"
  /\ lastResponse.usedFallback
  /\ lastResponse.thrown = "OVERLOADED"
  /\ lastResponse.calls = MediaRetries
  /\ analysisSessions[lastResponse.sid].results["transcription"] = "fallback"
  /\ analysisSessions[lastResponse.sid].status \in
       {"video_transcribed_fallback", "audio_transcribed_fallback"}

\* C5 as stated: for each of the six stages, when callGeminiAPI throws
\* OVERLOADED the stage ends on the fallback path with a success answer.
C5_OverloadedAlwaysFallback ==
  [][\A i \in Slots, o \in ProviderOutcomes :
       GatewayFails(i, o, {"OVERLOADED"})
       => /\ lastResponse'.code = 200
          /\ lastResponse'.usedFallback
          /\ analysisSessions'[requests[i].sid].results[ResultKeyOf(requests[i].op)]
               = "fallback"]_vars

\* C5 amended: when callGeminiAPI throws OVERLOADED, cv_analysis,
\* media_transcription and face_analysis end on the fallback path with a
\* success answer; technical_analysis, communication_analysis and
\* final_report have no fallback: they answer 500 and store nothing.
C5_OverloadedFallbackOnFileStages ==
  [][\A i \in Slots, o \in ProviderOutcomes :
       GatewayFails(i, o, {"OVERLOADED"})
       => IF requests[i].op \in FileStages
          THEN EndsOnFallback(i)
          ELSE /\ lastResponse'.op = requests[i].op
               /\ lastResponse'.code = 500
               /\ ~lastResponse'.usedFallback
               /\ requests'[i] = Idle
               /\ analysisSessions'[requests[i].sid].results
                    = analysisSessions[requests[i].sid].results]_vars

\* C5 witness: the final report failed with OVERLOADED and was answered 500
C5_Witness ==
  /\ lastResponse.op = "final_report"
  /\ lastResponse.thrown = "OVERLOADED"
  /\ lastResponse.code = 500
  /\ analysisSessions[lastResponse.sid].results["finalReport"] = "none"

\* C6 as stated: for each of the six stages, when callGeminiAPI throws
\* RATE_LIMITED, INVALID_REQUEST or FAILED_AFTER_RETRIES, the status becomes
\* error, the stage's key is not written and the caller gets a failure.
C6_OtherFailureSetsError ==
  [][\A i \in Slots, o \in ProviderOutcomes :
       GatewayFails(i, o, {"RATE_LIMITED", "INVALID_REQUEST", "FAILED_AFTER_RETRIES"})
       => LET sid == requests[i].sid
              key == ResultKeyOf(requests[i].op) IN
          /\ analysisSessions'[sid].status = "error"
          /\ analysisSessions'[sid].results[key] = analysisSessions[sid].results[key]
          /\ lastResponse'.code >= 400]_vars

\* the status the nominal flow names for each completed stage of a video
C8_ExpectedStatus(op) ==
  CASE op = "analyze_cv" -> "cv_analyzed"
    [] op = "transcribe_media" -> "video_transcribed"
    [] op = "face_analysis" -> "face_analyzed"
    [] op = "technical_analysis" -> "technical_analyzed"
    [] op = "communication_analysis" -> "communication_analyzed"
    [] op = "final_report" -> "completed"

\* the stages that come before op in the nominal order of a video session
C8_Earlier(op) ==
  LET order == NominalOrder("video") IN
  { order[m] : m \in { n \in 1..Len(order) :
                         \E k \in 1..Len(order) : order[k] = op /\ n < k } }

\* C8: in the nominal run of a video session within the caps, (a) a stage
\* requested after all earlier stages stored generated text is accepted and
\* reaches the provider, (b) when the provider returns generated text the
\* stage stores it under its key, sets its AI-completed status and answers
\* success, the final report also setting completedAt, and (c) once all six
\* keys hold generated text the status is completed and completedAt is set.
C8_NominalVideoPipeline ==
  [][ /\ \A op \in StageOps :
           ( /\ 1 \in DOMAIN analysisSessions
             /\ analysisSessions[1].mediaType = "video"
             /\ \A e \in C8_Earlier(op) :
                  analysisSessions[1].results[ResultKeyOf(e)] = "ai"
             /\ StartStage(1, op, 1) )
           => /\ requests'[1].pc \in {"stat", "read", "call"}
              /\ lastResponse' = lastResponse
      /\ ( /\ requests[1].op \in StageOps
           /\ analysisSessions[1].mediaType = "video"
           /\ (StatReturns(1) \/ FileRead(1)) )
         => requests'[1].pc \in {"read", "call"}
      /\ \A o \in ProviderOutcomes :
           ( /\ o.kind = "text" /\ o.text = "ai"
             /\ requests[1].op \in StageOps
             /\ analysisSessions[1].mediaType = "video"
             /\ ProviderReturns(1, o) )
           => LET op == requests[1].op
                  s == analysisSessions'[1] IN
              /\ s.results[ResultKeyOf(op)] = "ai"
              /\ s.status = C8_ExpectedStatus(op)
              /\ lastResponse'.op = op
              /\ lastResponse'.code = 200
              /\ ~lastResponse'.usedFallback
              /\ op = "final_report" => s.completedAt
      /\ ( /\ 1 \in DOMAIN analysisSessions'
           /\ analysisSessions'[1].mediaType = "video"
           /\ \A k \in ResultKeys : analysisSessions'[1].results[k] = "ai" )
         => /\ analysisSessions'[1].status = "completed"
            /\ analysisSessions'[1].completedAt ]_vars

\* C8 witness: the nominal run of a video session ended with six generated
\* texts
C8_Witness ==
  /\ 1 \in DOMAIN analysisSessions
  /\ analysisSessions[1].mediaType = "video"
  /\ \A k \in ResultKeys : analysisSessions[1].results[k] = "ai"
  /\ analysisSessions[1].status = "completed"
  /\ analysisSessions[1].completedAt
  /\ lastResponse.op = "final_report"
  /\ lastResponse.code = 200

\* C9: when cvAnalysis holds a text, transcription holds fallback content and
\* the status is {mediaType}_transcribed_fallback, a technical-analysis
\* request passes the prerequisite check: it sets analyzing_technical and
\* makes its first provider call.
C9_FallbackSatisfiesPrerequisite ==
  [][\A i \in Slots, sid \in DOMAIN analysisSessions :
       ( /\ HasContent(analysisSessions[sid], "cvAnalysis")
         /\ analysisSessions[sid].results["transcription"] = "fallback"
         /\ analysisSessions[sid].status =
              analysisSessions[sid].mediaType \o "_transcribed_fallback"
         /\ StageArrives(i, "technical_analysis", sid) )
       => /\ requests'[i].op = "technical_analysis"
          /\ requests'[i].pc = "call"
          /\ requests'[i].calls = 1
          /\ analysisSessions'[sid].status = "analyzing_technical"
          /\ lastResponse' = lastResponse]_vars

\* C9 witness: technical analysis is at the provider while the transcription
\* is fallback content
C9_Witness ==
  \E i \in Slots :
    /\ requests[i].op = "technical_analysis"
    /\ requests[i].pc = "call"
    /\ analysisSessions[requests[i].sid].results["transcription"] = "fallback"
    /\ analysisSessions[requests[i].sid].results["cvAnalysis"] = "ai"

\* the four analyses the final report requires
C10_Required ==
  {"cvAnalysis", "transcription", "technicalAnalysis", "communicationAnalysis"}

\* C10: a final-report request is refused exactly when one of the four
\* required keys holds no text; the missing list of the refusal is exactly
\* the set of those keys, and the store is untouched; otherwise the request
\* is accepted and reaches the provider.  faceAnalysis plays no part.
C10_MissingListExact ==
  [][\A i \in Slots, sid \in DOMAIN analysisSessions :
       StageArrives(i, "final_report", sid)
       => LET absent == { k \in C10_Required : ~HasContent(analysisSessions[sid], k) } IN
          IF absent # {}
          THEN /\ lastResponse'.op = "final_report"
               /\ lastResponse'.code = 400
               /\ lastResponse'.error = "Incomplete analysis"
               /\ lastResponse'.missing = absent
               /\ requests'[i] = Idle
               /\ analysisSessions' = analysisSessions
          ELSE /\ requests'[i].pc = "call"
               /\ analysisSessions'[sid].status = "generating_final_report"
               /\ lastResponse' = lastResponse]_vars

\* C10 witness: with cvAnalysis, transcription and faceAnalysis present the
\* refusal lists exactly technicalAnalysis and communicationAnalysis
C10_Witness ==
  /\ lastResponse.op = "final_report"
  /\ lastResponse.code = 400
  /\ lastResponse.missing = {"technicalAnalysis", "communicationAnalysis"}
  /\ analysisSessions[lastResponse.sid].results["cvAnalysis"] = "ai"
  /\ analysisSessions[lastResponse.sid].results["transcription"] = "fallback"
  /\ analysisSessions[lastResponse.sid].results["faceAnalysis"] = "ai"

\* C11: a retry of step S changes no key of results but S's own, from the
\* reset to the end of the re-invoked stage: the reset removes the prior
\* value of S and touches no other key, no step of the re-invoked stage
\* touches another key, and when the stage ends with success results[S] is
\* exactly the text of this invocation (the provider's text or the fallback
\* text); when it ends otherwise S stays removed.
C11_RetryOverwritesOwnKeyOnly ==
  [][/\ \A step \in RetrySteps :
          Retry(1, 1, step)
          => /\ analysisSessions'[1].results[ResultKeyOf(StageOfStep(step))] = "none"
             /\ \A k \in ResultKeys \ {ResultKeyOf(StageOfStep(step))} :
                  analysisSessions'[1].results[k] = analysisSessions[1].results[k]
     /\ requests[1].viaRetry
        => /\ \A k \in ResultKeys \ {ResultKeyOf(requests[1].op)} :
                analysisSessions'[1].results[k] = analysisSessions[1].results[k]
           /\ analysisSessions[1].results[ResultKeyOf(requests[1].op)] = "none"
           /\ \A o \in ProviderOutcomes :
                (requests[1].pc = "call" /\ ProviderReturns(1, o) /\ requests'[1] = Idle)
                => analysisSessions'[1].results[ResultKeyOf(requests[1].op)] =
                     IF lastResponse'.code # 200 THEN "none"
                     ELSE IF lastResponse'.usedFallback THEN "fallback"
                     ELSE o.text]_vars

\* C11 witness: the transcription re-invoked by a retry is at the provider;
\* its own key was removed and three other keys hold earlier results
C11_Witness ==
  /\ requests[1].viaRetry
  /\ requests[1].op = "transcribe_media"
  /\ requests[1].pc = "call"
  /\ analysisSessions[1].results["transcription"] = "none"
  /\ analysisSessions[1].results["cvAnalysis"] = "fallback"
  /\ analysisSessions[1].results["technicalAnalysis"] = "ai"
  /\ analysisSessions[1].results["finalReport"] = "ai"

\* the status a retry of each step goes back to
C12_PredecessorStatus(step, s) ==
  CASE step = "cv_analysis" -> "initialized"
    [] step = "transcription" -> "cv_analyzed"
    [] step = "face_analysis" ->
         IF s.mediaType = "video" THEN "video_transcribed" ELSE "audio_transcribed"
    [] step = "technical_analysis" ->
         IF HasContent(s, "faceAnalysis") THEN "face_analyzed"
         ELSE IF s.mediaType = "video" THEN "video_transcribed"
         ELSE "audio_transcribed"
    [] step = "communication_analysis" -> "technical_analyzed"
    [] step = "final_report" -> "communication_analyzed"

\* the stage route each step names
C12_RouteOf(step) ==
  CASE step = "cv_analysis" -> "analyze_cv"
    [] step = "transcription" -> "transcribe_media"
    [] step = "face_analysis" -> "face_analysis"
    [] step = "technical_analysis" -> "technical_analysis"
    [] step = "communication_analysis" -> "communication_analysis"
    [] step = "final_report" -> "final_report"

\* C12: a retry of a valid step sets the status to the completed status of
\* the predecessor stage, removes results[S] and answers with a redirect to
\* the stage route of S for the same session; following the redirect starts
\* that route's handler for that session: it either answers at once or is
\* suspended in its first await.
C12_RetryResetsThenInvokes ==
  [][/\ \A step \in RetrySteps :
          Retry(1, 1, step)
          => /\ analysisSessions'[1].status =
                  C12_PredecessorStatus(step, analysisSessions[1])
             /\ analysisSessions'[1].results[ResultKeyOf(C12_RouteOf(step))] = "none"
             /\ lastResponse'.code = 307
             /\ lastResponse'.nextStep = C12_RouteOf(step)
             /\ requests'[1].pc = "redirect"
             /\ requests'[1].op = C12_RouteOf(step)
             /\ requests'[1].sid = 1
     /\ (requests[1].pc = "redirect" /\ FollowRedirect(1))
        => \/ /\ requests'[1].op = requests[1].op
              /\ requests'[1].sid = requests[1].sid
              /\ requests'[1].seq = issued'
              /\ requests'[1].pc \in {"stat", "read", "call"}
           \/ /\ requests'[1] = Idle
              /\ lastResponse'.op = requests[1].op
              /\ lastResponse'.sid = requests[1].sid
              /\ lastResponse'.seq = issued'
              /\ lastResponse'.code = 400]_vars

\* C12 witness: after a retry of technical_analysis on a session that holds
\* a face analysis, the technical-analysis route is at the provider and the
\* status it set replaced face_analyzed
C12_Witness ==
  /\ requests[1].viaRetry
  /\ requests[1].op = "technical_analysis"
  /\ requests[1].pc = "call"
  /\ analysisSessions[1].results["faceAnalysis"] = "ai"
  /\ analysisSessions[1].status = "analyzing_technical"

\* the status the fallback of each step sets
C13_FallbackStatus(step, mediaType) ==
  CASE step = "cv_analysis" -> "cv_analyzed_fallback"
    [] step = "transcription" ->
         IF mediaType = "video" THEN "video_transcribed_fallback"
         ELSE "audio_transcribed_fallback"
    [] step = "face_analysis" -> "face_analyzed_fallback"

\* the next stage the fallback of each step reports
C13_NextStep(step, mediaType) ==
  CASE step = "cv_analysis" -> "media_transcription"
    [] step = "transcription" ->
         IF mediaType = "video" THEN "face_analysis" ELSE "technical_analysis"
    [] step = "face_analysis" -> "technical_analysis"

\* the session after the fallback of step: fallback content under the
\* stage's key, the _fallback status, everything else as it was
C13_Effect(s, step) ==
  [s EXCEPT !.results[ResultKeyOf(C12_RouteOf(step))] = "fallback",
            !.status = C13_FallbackStatus(step, s.mediaType)]

\* C13: a force-fallback of cv_analysis, transcription or (on a video
\* session) face_analysis suspends no handler and makes zero gateway calls,
\* whatever the status was; it leaves the session exactly as the overload
\* path of the stage leaves it (fallback content under the stage's key, the
\* _fallback status, nothing else changed) and reports the same next stage.
C13_ForceFallbackLikeOverloadPath ==
  [][/\ \A step \in FallbackSteps :
          ( /\ step = "face_analysis" => analysisSessions[1].mediaType = "video"
            /\ ForceFallback(1, step) )
          => /\ analysisSessions'[1] = C13_Effect(analysisSessions[1], step)
             /\ requests' = requests
             /\ lastResponse'.code = 200
             /\ lastResponse'.calls = 0
             /\ lastResponse'.usedFallback
             /\ lastResponse'.nextStep =
                  C13_NextStep(step, analysisSessions[1].mediaType)
     /\ \A step \in FallbackSteps, o \in ProviderOutcomes :
          ( /\ requests[1].op = C12_RouteOf(step)
            /\ GatewayFails(1, o, {"OVERLOADED"}) )
          => /\ analysisSessions'[1] = C13_Effect(analysisSessions[1], step)
             /\ lastResponse'.code = 200
             /\ lastResponse'.usedFallback
             /\ lastResponse'.nextStep =
                  C13_NextStep(step, analysisSessions[1].mediaType)]_vars

\* C13 witness: the fallback of the transcription was forced on a completed
\* video session
C13_Witness ==
  /\ lastResponse.op = "fallback"
  /\ lastResponse.code = 200
  /\ lastResponse.calls = 0
  /\ lastResponse.nextStep = "face_analysis"
  /\ analysisSessions[1].status = "video_transcribed_fallback"
  /\ analysisSessions[1].results["transcription"] = "fallback"
  /\ analysisSessions[1].results["finalReport"] = "ai"
  /\ analysisSessions[1].completedAt

\* C14 as stated: an invocation whose attachment is above 20 MB ends in its
\* first iteration with a failure of the payload-too-large kind, with no
\* network call, no wait and no further attempt.
C14_OversizedPayloadFailsAtOnce ==
  [][( /\ requests[1].payloadMB > 20
       /\ InvokeEnters )
     => /\ requests'[1] = Idle
        /\ lastResponse'.thrown = "PAYLOAD_TOO_LARGE"
        /\ lastResponse'.attempt = 1
        /\ lastResponse'.calls = 0
        /\ lastResponse'.waits = 0]_vars

\* C15 as stated: an attempt the provider answers with code 400 ends the
\* invocation at once with INVALID_REQUEST, whatever the message text and
\* the remaining attempts: no wait and no further call.
C15_BadRequestNeverRetried ==
  [][\A o \in ProviderErrors :
       ( /\ o.code = 400
         /\ InvokeSettles(o) )
       => /\ requests'[1] = Idle
          /\ lastResponse'.thrown = "INVALID_REQUEST"
          /\ lastResponse'.calls = requests[1].calls
          /\ lastResponse'.waits = requests[1].waits]_vars

\* the escalating schedule: 30 s, 120 s, 300 s, and 300 s afterwards
C16_Schedule(n) ==
  CASE n = 1 -> 30000
    [] n = 2 -> 120000
    [] OTHER -> 300000

\* the provider signals overload: code 503, or "overloaded" in the message
C16_SignalsOverload(o) == o.kind = "error" /\ (o.code = 503 \/ o.overloadedMsg)

\* C16: when attempt n signals overload and n is below the budget, the
\* invocation waits the n-th entry of the schedule and leaves everything
\* else as it was, and when the wait is over it makes attempt n+1; when
\* attempt n is the last of the budget the invocation throws OVERLOADED
\* without waiting.
C16_OverloadSchedule ==
  [][/\ \A o \in ProviderOutcomes :
          ( /\ C16_SignalsOverload(o)
            /\ InvokeSettles(o) )
          => IF requests[1].attempt < requests[1].retries
             THEN /\ requests'[1].pc = "wait"
                  /\ requests'[1].waitMs = C16_Schedule(requests[1].attempt)
                  /\ requests'[1].attempt = requests[1].attempt
                  /\ requests'[1].calls = requests[1].calls
                  /\ lastResponse' = lastResponse
             ELSE /\ requests'[1] = Idle
                  /\ lastResponse'.thrown = "OVERLOADED"
                  /\ lastResponse'.waits = requests[1].waits
                  /\ lastResponse'.calls = requests[1].calls
     /\ ( /\ requests[1].pc = "wait"
          /\ requests[1].waitMs \in {30000, 120000, 300000}
          /\ requests[1].payloadMB <= 20
          /\ InvokeDelayElapses )
        => /\ requests'[1].pc = "call"
           /\ requests'[1].attempt = requests[1].attempt + 1
           /\ requests'[1].calls = requests[1].calls + 1]_vars

\* C16 witness: the fourth attempt of five signalled overload and the
\* invocation waits 300 s
C16_Witness ==
  /\ requests[1].op = "invoke"
  /\ requests[1].pc = "wait"
  /\ requests[1].attempt = 4
  /\ requests[1].waitMs = 300000

C18_GenericFailureBackoff ==
  [][/\ \A o \in ProviderOutcomes :
          ( /\ o.kind # "text"
            /\ ~C16_SignalsOverload(o)
            /\ o.code \notin {429, 400}
            /\ InvokeSettles(o) )
          => IF requests[1].attempt < requests[1].retries
             THEN /\ requests'[1].pc = "wait"
                  /\ requests'[1].waitMs = 5000 * requests[1].attempt
                  /\ requests'[1].attempt = requests[1].attempt
                  /\ requests'[1].calls = requests[1].calls
                  /\ lastResponse' = lastResponse
             ELSE /\ requests'[1] = Idle
                  /\ lastResponse'.thrown = "FAILED_AFTER_RETRIES"
                  /\ lastResponse'.waits = requests[1].waits
                  /\ lastResponse'.calls = requests[1].calls
     /\ ( /\ requests[1].pc = "wait"
          /\ requests[1].waitMs \in { 5000 * n : n \in 1..MaxBudget }
          /\ requests[1].payloadMB <= 20
          /\ InvokeDelayElapses )
        => /\ requests'[1].pc = "call"
           /\ requests'[1].attempt = requests[1].attempt + 1
           /\ requests'[1].calls = requests[1].calls + 1]_vars

\* C18 witness: three attempts of three failed, the invocation waited twice
\* and threw FAILED_AFTER_RETRIES
C18_Witness ==
  /\ lastResponse.op = "invoke"
  /\ lastResponse.thrown = "FAILED_AFTER_RETRIES"
  /\ lastResponse.retries = 3
  /\ lastResponse.calls = 3
  /\ lastResponse.waits = 2

\* the attempt budget of each call site
C19_Budget(op) ==
  CASE op = "health" -> 1
    [] op = "analyze_cv" -> 2
    [] op \in {"transcribe_media", "face_analysis"} -> 3
    [] op \in {"technical_analysis", "communication_analysis", "final_report"} -> 3
    [] OTHER -> 0

\* C19: whatever the provider answers, a request never makes more network
\* calls, and never starts a higher attempt, than the budget of its call
\* site: 1 for the health check, 2 for cv analysis, 3 for the other stages;
\* a request that is not a call site makes none.
C19_CallsWithinBudget ==
  /\ \A i \in Slots :
       /\ requests[i].calls <= C19_Budget(requests[i].op)
       /\ requests[i].attempt <= C19_Budget(requests[i].op)
  /\ lastResponse.calls <= C19_Budget(lastResponse.op)

\* C19 witness: the final report used up its attempts (the status is still
\* generating_final_report), and then the health check failed after its
\* single call
C19_Witness ==
  /\ lastResponse.op = "health"
  /\ lastResponse.calls = 1
  /\ lastResponse.thrown = "FAILED_AFTER_RETRIES"
  /\ 1 \in DOMAIN analysisSessions
  /\ analysisSessions[1].status = "generating_final_report"

\* the sequence numbers of the requests of the client
C20_Requests == 1..(Len(NominalOrder("video")) + 2)

\* C20: every request whose handler has started is eventually answered, with
\* a success (which includes the fallback answers) or a failure code.
C20_EveryInvocationResponds ==
  \A n \in C20_Requests :
    (\E i \in Slots : requests[i].seq = n /\ requests[i].pc # "idle")
      ~> (lastResponse.seq = n /\ lastResponse.code \in {200, 400, 429, 500, 503})

\* C20 witness: a face analysis used its three attempts, waited twice and was
\* answered with a failure
C20_Witness ==
  /\ lastResponse.op = "face_analysis"
  /\ lastResponse.calls = 3
  /\ lastResponse.code = 500
  /\ lastResponse.thrown = "FAILED_AFTER_RETRIES"
  /\ AllAnswered

\* the request of slot i is suspended inside callGeminiAPI
InGateway(i) == requests[i].pc \in {"call", "wait"}

\* slot j takes a step: its request arrives, resumes or is answered
SlotSteps(j) == requests'[j] # requests[j]

\* C21: while a stage request is suspended in a provider call or a backoff
\* wait, a request for any other session can start on a free connection;
\* each step of a request for another session leaves the suspended request
\* and its session as they are and writes the session it addresses only, up
\* to and including its answer.
C21_OtherSessionsNotBlocked ==
  /\ [](\A i \in Slots :
          InGateway(i) /\ (\E j \in Slots : requests[j].pc = "idle") =>
            \A sid \in DOMAIN analysisSessions \ {requests[i].sid}, op \in StageOps :
              \E j \in Slots : ENABLED StartStage(j, op, sid))
  /\ [][\A i \in Slots : \A j \in Slots \ {i} :
          LET a == requests[i].sid
              b == IF requests[j].pc = "idle" THEN requests'[j].sid
                   ELSE requests[j].sid IN
          InGateway(i) /\ SlotSteps(j) /\ b # a /\ b # 0 =>
            /\ requests'[i] = requests[i]
            /\ analysisSessions'[a] = analysisSessions[a]
            /\ requests'[j] = Idle =>
                 /\ lastResponse'.sid = b
                 /\ lastResponse'.seq # lastResponse.seq]_vars

\* a cv analysis of session 1 waits out its first backoff delay while the
\* cv analysis of session 2, which arrived later, has stored its result and
\* has been answered
C21_Witness ==
  /\ requests[1].op = "analyze_cv"
  /\ requests[1].sid = 1
  /\ requests[1].pc = "wait"
  /\ requests[1].attempt = 1
  /\ requests[2].pc = "idle"
  /\ lastResponse.sid = 2
  /\ lastResponse.op = "analyze_cv"
  /\ lastResponse.seq > requests[1].seq
  /\ lastResponse.code = 200
  /\ analysisSessions[2].status = "cv_analyzed"
  /\ analysisSessions[2].results["cvAnalysis"] = "ai"
  /\ analysisSessions[1].status = "analyzing_cv"

\* C22: a transcribe-media request on a file above the processing cap and
\* within the upload cap makes no provider call and ends on the fallback
\* path: the fallback transcription is stored, the status is
\* {mediaType}_transcribed_fallback and the caller gets a success answer.
C22_AboveProcessingCapFallsBack ==
  [][\A i \in Slots :
       LET r == requests[i] IN
       (/\ r.pc = "stat"
        /\ r.op = "transcribe_media"
        /\ LET s == analysisSessions[r.sid] IN
           /\ s.mediaSizeMB > ProcessingCapMB(r.op, s.mediaType)
           /\ s.mediaSizeMB <= UploadCapMB(r.op, s.mediaType)
        /\ StatReturns(i))
       => /\ EndsOnFallback(i)
          /\ lastResponse'.calls = 0]_vars

\* the upload caps of the media stages, in MB
C23_UploadCapMB(mediaType) == IF mediaType = "audio" THEN 25 ELSE 10

\* C23: a transcribe-media or face-analysis request whose media file is
\* larger than the upload cap is answered 400 as soon as the size is known,
\* with no provider call made and with results left as they were.
C23_AboveUploadCapRejected ==
  [][\A i \in Slots :
       LET r == requests[i] IN
       (/\ r.pc = "stat"
        /\ r.op \in {"transcribe_media", "face_analysis"}
        /\ analysisSessions[r.sid].mediaSizeMB >
             C23_UploadCapMB(analysisSessions[r.sid].mediaType)
        /\ StatReturns(i))
       => /\ requests'[i] = Idle
          /\ lastResponse'.seq = r.seq
          /\ lastResponse'.code = 400
          /\ lastResponse'.calls = 0
          /\ analysisSessions'[r.sid].results = analysisSessions[r.sid].results]_vars

\* a 26 MB audio file has been refused by transcribe-media
C23_Witness ==
  /\ lastResponse.op = "transcribe_media"
  /\ lastResponse.code = 400
  /\ lastResponse.error = "file too large for processing"
  /\ lastResponse.calls = 0
  /\ lastResponse.sid \in DOMAIN analysisSessions
  /\ analysisSessions[lastResponse.sid].mediaType = "audio"
  /\ analysisSessions[lastResponse.sid].mediaSizeMB = 26
  /\ analysisSessions[lastResponse.sid].results["transcription"] = "none"

\* C25: a create-session request that is answered 200 adds exactly one
\* session and leaves the others alone; the new session has status
\* initialized, no result and no completedAt, and its mediaType is video when
\* a video file was uploaded (with or without an audio file) and audio
\* otherwise.  A request without media file, without CV file or without job
\* description is not answered 200, and a request not answered 200 adds no
\* session.
C25_CreateSession ==
  [][\A u \in Uploads :
       Initialize(u) =>
         LET added == DOMAIN analysisSessions' \ DOMAIN analysisSessions
             missing == (u.audio = 0 /\ u.video = 0) \/ u.cv = 0 \/ ~u.jobDescription IN
         /\ missing => lastResponse'.code # 200
         /\ IF lastResponse'.code = 200
            THEN /\ Cardinality(added) = 1
                 /\ DOMAIN analysisSessions \subseteq DOMAIN analysisSessions'
                 /\ \A x \in DOMAIN analysisSessions :
                      analysisSessions'[x] = analysisSessions[x]
                 /\ \A n \in added :
                      /\ lastResponse'.sid = n
                      /\ analysisSessions'[n].sessionId = n
                      /\ analysisSessions'[n].status = "initialized"
                      /\ \A k \in ResultKeys : analysisSessions'[n].results[k] = "none"
                      /\ ~analysisSessions'[n].completedAt
                      /\ analysisSessions'[n].mediaType =
                           IF u.video # 0 THEN "video" ELSE "audio"
            ELSE analysisSessions' = analysisSessions]_vars

\* a session has just been created from an upload with both an audio and a
\* video file
C25_Witness ==
  /\ lastResponse.op = "initialize"
  /\ lastResponse.code = 200
  /\ lastResponse.sid \in DOMAIN analysisSessions
  /\ analysisSessions[lastResponse.sid].audioPath
  /\ analysisSessions[lastResponse.sid].videoPath
  /\ analysisSessions[lastResponse.sid].mediaType = "video"
  /\ analysisSessions[lastResponse.sid].status = "initialized"

\* a request for session id sid arrives in this step: a stage, a forced
\* fallback, a retry or a fetch of the session
AddressedTo(sid) ==
  \/ \E i \in Slots, op \in StageOps : StartStage(i, op, sid)
  \/ \E step \in StepNames : ForceFallback(sid, step)
  \/ \E i \in Slots, step \in StepNames : Retry(i, sid, step)
  \/ GetSession(sid)

\* C24: a stage, forced fallback, retry or session fetch addressed to an id
\* that is not in the store is answered 404 not-found at once; it creates
\* no session, changes no session, makes no provider call and leaves no
\* handler behind.
C24_UnknownSessionNotFound ==
  [][\A sid \in AddressableIds \ DOMAIN analysisSessions :
       issued' = issued + 1 /\ AddressedTo(sid) =>
         /\ lastResponse'.seq = issued'
         /\ lastResponse'.sid = sid
         /\ lastResponse'.code = 404
         /\ lastResponse'.error = "Session not found"
         /\ lastResponse'.calls = 0
         /\ analysisSessions' = analysisSessions
         /\ requests' = requests]_vars

\* a retry addressed to an id that is not in the store, while a session
\* holding a result exists, has been answered not-found
C24_Witness ==
  /\ lastResponse.op = "retry"
  /\ lastResponse.code = 404
  /\ lastResponse.sid \notin DOMAIN analysisSessions
  /\ \E x \in DOMAIN analysisSessions :
       analysisSessions[x].results["cvAnalysis"] # "none"

\* what POST /api/initialize recorded about the upload
Identity(s) ==
  [sessionId |-> s.sessionId, mediaType |-> s.mediaType,
   audioPath |-> s.audioPath, videoPath |-> s.videoPath,
   mediaSizeMB |-> s.mediaSizeMB, cvSizeMB |-> s.cvSizeMB]

\* C26: once a session is in the store it stays there under its id, and no
\* step of any operation changes its id, its media type, its media files or
\* its CV file.
C26_IdentityNeverChanges ==
  [][\A sid \in DOMAIN analysisSessions :
       /\ sid \in DOMAIN analysisSessions'
       /\ Identity(analysisSessions'[sid]) = Identity(analysisSessions[sid])
       /\ analysisSessions[sid].sessionId = sid]_vars

\* a video session whose status was rewritten by earlier requests and then
\* by a forced fallback of the face analysis
C26_Witness ==
  /\ lastResponse.op = "fallback"
  /\ lastResponse.code = 200
  /\ lastResponse.seq = 4
  /\ 1 \in DOMAIN analysisSessions
  /\ analysisSessions[1].mediaType = "video"
  /\ analysisSessions[1].videoPath
  /\ analysisSessions[1].status = "face_analyzed_fallback"
  /\ analysisSessions[1].results["cvAnalysis"] = "none"

\* C27: completedAt goes from unset to set only in the step in which a
\* final-report request of that session gets text back from the provider,
\* stores it in results.finalReport, sets the status completed and is
\* answered 200; no step of any other operation sets it.
C27_CompletedAtOnlyByFinalReport ==
  [][\A sid \in DOMAIN analysisSessions :
       analysisSessions'[sid].completedAt /\ ~analysisSessions[sid].completedAt =>
         \E i \in Slots :
           /\ requests[i].op = "final_report"
           /\ requests[i].sid = sid
           /\ requests[i].pc = "call"
           /\ requests'[i] = Idle
           /\ lastResponse'.seq = requests[i].seq
           /\ lastResponse'.code = 200
           /\ ~lastResponse'.usedFallback
           /\ analysisSessions'[sid].results["finalReport"] \in {"ai", "empty"}
           /\ analysisSessions'[sid].status = "completed"]_vars

\* the final report, re-run through a retry, has succeeded and completedAt
\* is set
C27_Witness ==
  /\ lastResponse.op = "final_report"
  /\ lastResponse.code = 200
  /\ lastResponse.seq > PriorRequests
  /\ analysisSessions[1].completedAt
  /\ analysisSessions[1].status = "completed"
  /\ analysisSessions[1].results["finalReport"] = "ai"

\* two answers that differ in nothing but the request they answer
SameAnswer(a, b) == [a EXCEPT !.seq = 0] = [b EXCEPT !.seq = 0]

\* C28: when a stage request or a forced fallback is repeated on a session
\* and ends as the first one did (same answer; on success, same text from
\* the provider), the session's status and results after the second
\* execution equal those after the first.
C28_RepeatIsIdempotent ==
  [][/\ (/\ issued = PriorRequests + 1
         /\ lastResponse'.seq = PriorRequests + 2
         /\ AllAnswered
         /\ SameAnswer(lastResponse', lastResponse))
        => Observed(analysisSessions'[1]) = Observed(analysisSessions[1])
     /\ (/\ "before" \in DOMAIN requests[1]
         /\ requests'[1] = Idle
         /\ SameAnswer(lastResponse', requests[1].first)
         /\ (lastResponse'.code = 200 /\ ~lastResponse'.usedFallback =>
               analysisSessions'[1].results[ResultKeyOf(requests[1].op)] =
                 requests[1].before.results[ResultKeyOf(requests[1].op)]))
        => Observed(analysisSessions'[1]) = requests[1].before]_vars

\* the cv analysis of a completed session ended on the fallback path twice
\* in a row, each time after two overloaded provider calls
C28_Witness ==
  /\ lastResponse.seq = PriorRequests + 2
  /\ lastResponse.op = "analyze_cv"
  /\ lastResponse.usedFallback
  /\ lastResponse.calls = 2
  /\ analysisSessions[1].status = "cv_analyzed_fallback"
  /\ analysisSessions[1].results["cvAnalysis"] = "fallback"
  /\ analysisSessions[1].results["finalReport"] = "ai"

\* the stage route an answer's nextStep names
C29_RouteOf(nextStep) ==
  IF nextStep = "media_transcription" THEN "transcribe_media" ELSE nextStep

C29_UpTo(op, mediaType) ==
  LET order == NominalOrder(mediaType) IN
  { order[m] : m \in { n \in 1..Len(order) :
                         \E k \in 1..Len(order) : order[k] = op /\ n <= k } }

C30_StatusAndResultFromSameInvocation ==
  [][\A i \in Slots :
       LET r == requests[i] IN
       (/\ r.pc # "idle"
        /\ r.op \in StageOps
        /\ lastResponse.op = r.op
        /\ lastResponse.sid = r.sid
        /\ lastResponse.seq > r.seq
        /\ requests'[i] = Idle
        /\ \A j \in Slots : requests'[j].pc = "idle")
       => LET key == ResultKeyOf(r.op)
              before == analysisSessions[r.sid]
              after == analysisSessions'[r.sid] IN
          ~(/\ after.status # before.status
            /\ before.results[key] # "none"
            /\ after.results[key] = before.results[key])]_vars

\* C31: whenever the status of a session is completed, its results hold
\* cvAnalysis, transcription, technicalAnalysis, communicationAnalysis and
\* finalReport, also when other requests for the session ran while the
\* final report was with the provider.
C31_CompletedHasAllResults ==
  \A sid \in DOMAIN analysisSessions :
    analysisSessions[sid].status = "completed" =>
      \A k \in {"cvAnalysis", "transcription", "technicalAnalysis",
                "communicationAnalysis", "finalReport"} :
        analysisSessions[sid].results[k] # "none"

\* the values session.status has while a stage is running
C32_InProgress ==
  {"analyzing_cv", "transcribing_media", "analyzing_face",
   "analyzing_technical", "analyzing_communication", "generating_final_report"}

\* C32: whenever no request is in flight, the status of no session is an
\* in-progress value: a stage that set one has replaced it with a completed,
\* fallback or error status by the time it answers.
C32_NoInProgressAtRest ==
  AllAnswered =>
    \A sid \in DOMAIN analysisSessions :
      analysisSessions[sid].status \notin C32_InProgress

\* the results key of the stage that a completed or fallback status names
\* ("none": the status names no finished stage)
C33_KeyOf(status) ==
  CASE status \in {"cv_analyzed", "cv_analyzed_fallback"} -> "cvAnalysis"
    [] status \in {"audio_transcribed", "video_transcribed",
                   "audio_transcribed_fallback", "video_transcribed_fallback"} ->
         "transcription"
    [] status \in {"face_analyzed", "face_analyzed_fallback"} -> "faceAnalysis"
    [] status = "technical_analyzed" -> "technicalAnalysis"
    [] status = "communication_analyzed" -> "communicationAnalysis"
    [] status = "completed" -> "finalReport"
    [] OTHER -> "none"

\* C33: in every reachable state, a status that is the completed or
\* fallback value of a stage comes with that stage's key in results.
C33_StatusImpliesKey ==
  \A sid \in DOMAIN analysisSessions :
    LET s == analysisSessions[sid] IN
    C33_KeyOf(s.status) # "none" => s.results[C33_KeyOf(s.status)] # "none"

\* the route of stage op refuses a request on session s before it changes
\* anything
C34_Rejected(op, s) ==
  \/ op = "face_analysis" /\ FaceUnavailable(s)
  \/ op \in PromptStages /\ PrerequisiteError(op, s.results) # "none"

\* C34: a retry whose re-invoked stage is refused without running (face
\* analysis on an audio session, a prompt stage with a prerequisite missing)
\* leaves status and results as they were before the retry request: neither
\* the retry's own step nor the refused follow-up changes them.
C34_RejectedRetryChangesNothing ==
  [][\A step \in RetrySteps :
       /\ (/\ Retry(1, 1, step)
           /\ C34_Rejected(StageOfStep(step), analysisSessions[1]))
          => Observed(analysisSessions'[1]) = Observed(analysisSessions[1])
       /\ (/\ requests[1].pc = "redirect"
           /\ requests[1].op = StageOfStep(step)
           /\ C34_Rejected(StageOfStep(step), analysisSessions[1])
           /\ FollowRedirect(1))
          => Observed(analysisSessions'[1]) = Observed(analysisSessions[1])]_vars

\* C35: a file stage whose gateway call failed with RATE_LIMITED,
\* INVALID_REQUEST or FAILED_AFTER_RETRIES, whatever the provider's message
\* says, does not end on the fallback path: no fallback text is stored and
\* the answer is not a fallback answer.
C35_OnlyOverloadedFallsBack ==
  [][\A i \in Slots, o \in ProviderOutcomes :
       (/\ requests[i].pc = "call"
        /\ requests[i].op \in FileStages
        /\ GatewayFails(i, o, {"RATE_LIMITED", "INVALID_REQUEST",
                               "FAILED_AFTER_RETRIES"}))
       => /\ ~lastResponse'.usedFallback
          /\ analysisSessions'[requests[i].sid].results[ResultKeyOf(requests[i].op)] =
               analysisSessions[requests[i].sid].results[ResultKeyOf(requests[i].op)]]_vars

\* the invocation ends in this step, on the outcome o of its provider call
C36_EndsOn(o) ==
  /\ requests[1].op = "invoke"
  /\ requests[1].pc = "call"
  /\ InvokeSettles(o)
  /\ requests'[1] = Idle

C36_Class(o) ==
  IF o.kind = "error" /\ (o.code = 503 \/ o.overloadedMsg) THEN "OVERLOADED"
  ELSE IF o.kind = "error" /\ o.code = 429 THEN "RATE_LIMITED"
  ELSE IF o.kind = "error" /\ o.code = 400 THEN "INVALID_REQUEST"
  ELSE "FAILED_AFTER_RETRIES"

C37_OtherSessionsUntouched ==
  [][\A b \in DOMAIN analysisSessions :
       /\ b \in DOMAIN analysisSessions'
       /\ analysisSessions'[b] # analysisSessions[b] =>
            \/ \E j \in Slots :
                 /\ SlotSteps(j)
                 /\ requests[j].sid = b \/ (requests[j].pc = "idle" /\ requests'[j].sid = b)
                 /\ \A k \in Slots \ {j} : requests'[k] = requests[k]
            \/ /\ requests' = requests
               /\ lastResponse'.seq = issued'
               /\ issued' = issued + 1
               /\ lastResponse'.sid = b
       /\ \A a \in DOMAIN analysisSessions \ {b} :
            analysisSessions'[a] # analysisSessions[a] =>
              analysisSessions'[b] = analysisSessions[b]]_vars

\* the cv analysis of session 2 was given its fallback while a cv analysis
\* of session 1 is with the provider; session 1 shows only its own request
C37_Witness ==
  /\ requests[1].op = "analyze_cv"
  /\ requests[1].sid = 1
  /\ requests[1].pc = "call"
  /\ analysisSessions[1].status = "analyzing_cv"
  /\ analysisSessions[1].results = EmptyResults
  /\ lastResponse.op = "fallback"
  /\ lastResponse.sid = 2
  /\ lastResponse.code = 200
  /\ analysisSessions[2].status = "cv_analyzed_fallback"
  /\ analysisSessions[2].results["cvAnalysis"] = "fallback"

\* the steps each route supports
C38_RetrySupported ==
  {"cv_analysis", "transcription", "face_analysis", "technical_analysis",
   "communication_analysis", "final_report"}

C38_FallbackSupported == {"cv_analysis", "transcription", "face_analysis"}

\* the request was refused with the list of steps, without a provider call
\* and without a change to the session or to any request
C38_Refused(supported) ==
  /\ lastResponse'.seq = issued'
  /\ lastResponse'.code = 400
  /\ lastResponse'.availableSteps = supported
  /\ lastResponse'.calls = 0
  /\ analysisSessions' = analysisSessions
  /\ requests' = requests

====
